---- MODULE Spec2Model ----
(***************************************************************************)
(* A model of the three programs of the UFL rule impact analysis:          *)
(*   ufl_rule_analysis.py     (script, Sections 1 and 2)                   *)
(*   banned_punt_analysis.py  (script, Sections A, B, D)                   *)
(*   dashboard.py             (Streamlit app: cached compute_* functions,  *)
(*                             rerun on every sidebar change)              *)
(* A play table is a sequence of rows; a derived frame (a filter of the    *)
(* table) is the sequence of the row positions it keeps, as a pandas       *)
(* filter keeps the index labels of the rows it selects.                   *)
(* Floats are modelled as exact rationals <<n, d>> in lowest terms with    *)
(* d > 0, and NaN as <<0, 0>>.  A nullable integer column holds <<v>> or   *)
(* <<>> (NaN); a comparison with NaN is false, as in pandas.               *)
(***************************************************************************)
EXTENDS Integers, Sequences, FiniteSets, TLC

VARIABLES
    prog,          \* which program this process runs
    pc,            \* its position
    pbp,           \* the play table after the season_type == "REG" filter
    ufl,           \* module globals of ufl_rule_analysis.py
    bpa,           \* module globals of banned_punt_analysis.py
    exclude_2min,  \* dashboard sidebar checkbox
    punts_cache,   \* st.cache_data of compute_punts, by (season, exclude_2min)
    fgs_cache,     \* st.cache_data of compute_fgs, by (season)
    epa_cache,     \* st.cache_data of compute_epa_swing, by (season, exclude_2min)
    ui,            \* values the current dashboard rerun got from compute_*
    arg,           \* inputs of the pure-function specifications
    res,           \* results of the pure-function specifications
    season,        \* dashboard sidebar selectbox
    min_punts,     \* dashboard sidebar number input
    now,           \* the clock, in seconds
    up,            \* whether a call of the provider succeeds
    columns,       \* the columns of the table the provider returns
    feed,          \* the table the provider holds for a season
    pbp_cache,     \* st.cache_data of load_pbp, by (season)
    tush_cache,    \* st.cache_data of compute_tush_push, by (season)
    stamps,        \* when each entry of a cache was stored
    screen         \* what the run has shown to the user

\* the state of a dashboard session and of the provider, but for the screen
offscreen == <<season, min_punts, now, up, columns, feed, pbp_cache, tush_cache,
               stamps>>

session == <<offscreen, screen>>

vars == <<prog, pc, pbp, ufl, bpa, exclude_2min, punts_cache, fgs_cache,
          epa_cache, ui, arg, res, session>>

----------------------------------------------------------------------------
(* Bounds of the model *)

MaxPlays == 2

MaxEpaPlays == 3

MaxYdstogo == 14

MaxAttempts == 5

MaxSitPlays == 2

MaxLeadPlays == 2

\* plays of a table of sneaks, rushes and passes
MaxSneakPlays == 2

\* punts of a table of two teams
MaxTeamPlays == 3

\* plays of a table of running scores
MaxScorePlays == 2

\* score differentials from -MaxDiff to MaxDiff
MaxDiff == 20

\* the largest number the user types into the min-punts input
MaxMinPunts == 2

\* the clock advances by ClockStep seconds, up to MaxClock
ClockStep == 43200

MaxClock == 86400

\* the seasons of the selectbox that the user picks from
FirstSeasons == {2025, 2024}

----------------------------------------------------------------------------
(* Rationals (floats) *)

RECURSIVE Gcd(_, _)
Gcd(a, b) == IF b = 0 THEN a ELSE Gcd(b, a % b)

Abs(x) == IF x < 0 THEN 0 - x ELSE x

NaNRat == <<0, 0>>

IsNaN(r) == r[2] = 0

Rat(n, d) ==
    IF d = 0 THEN NaNRat
    ELSE LET s == IF d < 0 THEN 0 - 1 ELSE 1
             g == Gcd(Abs(n), Abs(d))
         IN  <<(s * n) \div g, (s * d) \div g>>

RatAdd(a, b) ==
    IF IsNaN(a) \/ IsNaN(b) THEN NaNRat
    ELSE Rat(a[1] * b[2] + b[1] * a[2], a[2] * b[2])

RatSub(a, b) ==
    IF IsNaN(a) \/ IsNaN(b) THEN NaNRat
    ELSE Rat(a[1] * b[2] - b[1] * a[2], a[2] * b[2])

RatMul(a, b) ==
    IF IsNaN(a) \/ IsNaN(b) THEN NaNRat
    ELSE Rat(a[1] * b[1], a[2] * b[2])

RatLt(a, b) == ~IsNaN(a) /\ ~IsNaN(b) /\ a[1] * b[2] < b[1] * a[2]

One == <<1, 1>>

\* x rounded to ndigits = 1 decimal, ties to the even digit (numpy.round,
\* and the "{:.1f}" format, of a value that is exact in binary)
Round1(r) ==
    IF IsNaN(r) THEN NaNRat
    ELSE LET q   == (r[1] * 10) \div r[2]
             rem == 2 * (r[1] * 10 - q * r[2])
         IN  IF rem > r[2] \/ (rem = r[2] /\ q % 2 = 1)
             THEN Rat(q + 1, 10) ELSE Rat(q, 10)

\* x as "{:+.3f}" prints it: rounded to 3 decimals, ties to the even digit
Round3(r) ==
    IF IsNaN(r) THEN NaNRat
    ELSE LET q   == (r[1] * 1000) \div r[2]
             rem == 2 * (r[1] * 1000 - q * r[2])
         IN  IF rem > r[2] \/ (rem = r[2] /\ q % 2 = 1)
             THEN Rat(q + 1, 1000) ELSE Rat(q, 1000)

\* x as "{:.1%}" prints it: the percentage rounded to 1 decimal
Percent1(r) == Round1(RatMul(r, <<100, 1>>))

----------------------------------------------------------------------------
(* Nullable integer columns *)

NaN == <<>>

Val(v) == <<v>>

NumEq(x, c) == x # NaN /\ x[1] = c

NumGe(x, c) == x # NaN /\ x[1] >= c

----------------------------------------------------------------------------
(* Frames: sequences of row positions of pbp *)

AllRows(t) == [i \in 1..Len(t) |-> i]

RECURSIVE SumInt(_)
SumInt(s) == IF s = <<>> THEN 0 ELSE Head(s) + SumInt(Tail(s))

RECURSIVE SumRat(_)
SumRat(s) == IF s = <<>> THEN <<0, 1>> ELSE RatAdd(Head(s), SumRat(Tail(s)))

MeanRat_ZeroOfNothing(s) ==
    LET kept == SelectSeq(s, LAMBDA r : ~IsNaN(r))
    IN  IF kept = <<>> THEN <<0, 1>>
        ELSE RatMul(SumRat(kept), Rat(1, Len(kept)))

\* Series.mean(): NaN values are skipped; the mean of nothing is NaN.
MeanRat(s) ==
    LET kept == SelectSeq(s, LAMBDA r : ~IsNaN(r))
    IN  IF kept = <<>> THEN NaNRat
        ELSE RatMul(SumRat(kept), Rat(1, Len(kept)))

\* The column col of the rows of frame f of table t.
Column(t, f, col) == [k \in 1..Len(f) |-> t[f[k]][col]]

----------------------------------------------------------------------------
(* The play table *)

Play(st, pt, team, yl, hsr, dn, ytg, sd, e, fdc, kd, fgr) ==
    [season_type |-> st, play_type |-> pt, posteam |-> team,
     yardline_100 |-> yl, half_seconds_remaining |-> hsr, down |-> dn,
     ydstogo |-> ytg, score_differential |-> sd, epa |-> e,
     fourth_down_converted |-> fdc, kick_distance |-> kd,
     field_goal_result |-> fgr,
     \* the columns of compute_tush_push; a play is no sneak, rush or pass
     \* unless a feed says so
     qb_sneak |-> 0, rush_attempt |-> 0, pass_attempt |-> 0,
     rusher_player_id |-> NaN, passer_player_id |-> NaN,
     third_down_converted |-> 0, game_id |-> 1,
     \* win probability before the play and its change; the home team and
     \* the running score of the game
     wp |-> <<1, 2>>, wpa |-> <<0, 1>>,
     home_team |-> "PHI", total_home_score |-> 0, total_away_score |-> 0]

\* Every table of at most max rows over the row set rows.
Tables(rows, max) == UNION {[1..n -> rows] : n \in 0..max}

\* nfl.import_pbp_data(...) followed by pbp[pbp["season_type"] == "REG"].
RegularSeason(raw) == SelectSeq(raw, LAMBDA r : r.season_type = "REG")

\* The columns of the provider's table that the programs read.
AllColumns ==
    {"season_type", "play_type", "posteam", "yardline_100",
     "half_seconds_remaining", "down", "ydstogo", "score_differential", "epa",
     "wp", "wpa", "fourth_down_converted", "third_down_converted",
     "kick_distance", "field_goal_result", "rush_attempt", "pass_attempt",
     "rusher_player_id", "passer_player_id", "qb_sneak", "game_id",
     "home_team", "total_home_score", "total_away_score"}

----------------------------------------------------------------------------
(* Constants of the programs *)

TWO_MIN == 120

MIDFIELD == 50

LONG_FG == 60

DefaultSeason == 2025

----------------------------------------------------------------------------
(* Filters shared by the programs' frames *)

Filter(t, f, P(_)) == SelectSeq(f, LAMBDA i : P(t[i]))

IsPunt(r) == r.play_type = "punt"

InOppTerritory_Le(r) == r.yardline_100 <= MIDFIELD

InOppTerritory(r) == r.yardline_100 < MIDFIELD

InTwoMinWindow_Minutes(r) == r.half_seconds_remaining <= 2

\* half_seconds_remaining <= 120
InTwoMinWindow(r) == r.half_seconds_remaining <= TWO_MIN

OutsideTwoMin_Ge(r) == r.half_seconds_remaining >= TWO_MIN

\* half_seconds_remaining > 120
OutsideTwoMin(r) == r.half_seconds_remaining > TWO_MIN

\* groupby("posteam"): one group per team that occurs in the frame.
Teams(t, f) == {t[f[k]].posteam : k \in 1..Len(f)}

OfTeam(t, f, team) == Filter(t, f, LAMBDA r : r.posteam = team)

NaNRow(cols) == [c \in cols |-> NaNRat]

Pct_Unguarded(n, total) == RatMul(Rat(n, total), <<100, 1>>)

\* n / total * 100 if total > 0 else 0.0
Pct(n, total) == IF total > 0 THEN RatMul(Rat(n, total), <<100, 1>>) ELSE <<0, 1>>

----------------------------------------------------------------------------
(* ufl_rule_analysis.py *)

\* SECTION 1: PUNTS (league-wide)
UflPunts(t) ==
    LET punts                  == Filter(t, AllRows(t), IsPunt)
        punts_in_opp_territory == Filter(t, punts, InOppTerritory)
        punts_exempt           == Filter(t, punts_in_opp_territory, InTwoMinWindow)
        punts_illegal          == Filter(t, punts_in_opp_territory,
                                         LAMBDA r : ~InTwoMinWindow(r))
    IN  [punts                  |-> punts,
         punts_in_opp_territory |-> punts_in_opp_territory,
         punts_exempt           |-> punts_exempt,
         punts_illegal          |-> punts_illegal,
         total_punts            |-> Len(punts),
         n_opp_territory        |-> Len(punts_in_opp_territory),
         n_exempt_punts         |-> Len(punts_exempt),
         n_illegal_punts        |-> Len(punts_illegal),
         pct_illegal_punts      |-> Pct(Len(punts_illegal), Len(punts)),
         \* SECTION 1a: per team, ((x < 50) &
         \* (punts.loc[x.index, "half_seconds_remaining"] > 120)).sum()
         team_punts             |->
            [team \in Teams(t, punts) |->
                LET g       == OfTeam(t, punts, team)
                    illegal == Filter(t, g, LAMBDA r : /\ InOppTerritory(r)
                                                       /\ OutsideTwoMin(r))
                IN  [total_punts   |-> Len(g),
                     illegal_punts |-> Len(illegal),
                     pct_illegal   |-> Round1(Pct_Unguarded(Len(illegal),
                                                            Len(g)))]]]

----------------------------------------------------------------------------
(* dashboard.py: compute_punts *)

\* if exclude_2min: ... else: ...
DashExempt(t, punts_in_opp, excl) ==
    IF excl THEN Filter(t, punts_in_opp, InTwoMinWindow) ELSE <<>>

DashBanned_AlwaysExempt(t, punts_in_opp, excl) ==
    Filter(t, punts_in_opp, OutsideTwoMin)

DashBanned(t, punts_in_opp, excl) ==
    IF excl THEN Filter(t, punts_in_opp, OutsideTwoMin) ELSE punts_in_opp

\* The posteam values of the feeds in lexicographic order: the order in which
\* groupby("posteam") lists its groups.
TeamsSorted == <<"DAL", "PHI">>

\* The rows of tbl whose column col is v, in the order of tbl.
WithValue(tbl, col, v) == SelectSeq(tbl, LAMBDA row : row[col] = v)

\* sort_values(col, ascending=False) for a count column with values 0..max;
\* rows with equal counts keep their order.
RECURSIVE SortDescending(_, _, _)
SortDescending(tbl, col, max) ==
    IF max < 0 THEN <<>>
    ELSE WithValue(tbl, col, max) \o SortDescending(tbl, col, max - 1)

\* punts.groupby("posteam").agg(...).join(banned_by_team, how="left")
\*      .fillna({"banned_punts": 0}).assign(...).sort_values("banned_punts", ...)
\* with the columns then renamed "Total Punts", "Banned Punts", "% Banned".
TeamTable_InnerJoin(t, punts, banned) ==
    LET groups == SelectSeq(TeamsSorted, LAMBDA team : team \in Teams(t, banned))
        row(team) ==
            LET total_punts  == Len(OfTeam(t, punts, team))
                banned_punts == Len(OfTeam(t, banned, team))
            IN  ("Team" :> team) @@
                ("Total Punts" :> total_punts) @@
                ("Banned Punts" :> banned_punts) @@
                ("% Banned" :> Round1(RatMul(Rat(banned_punts, total_punts), <<100, 1>>)))
    IN  SortDescending([k \in 1..Len(groups) |-> row(groups[k])],
                       "Banned Punts", Len(banned))

TeamTable(t, punts, banned) ==
    LET groups == SelectSeq(TeamsSorted, LAMBDA team : team \in Teams(t, punts))
        \* banned.groupby("posteam").size(): the teams with a banned punt
        banned_by_team == [team \in Teams(t, banned) |->
                              Len(OfTeam(t, banned, team))]
        row(team) ==
            LET total_punts  == Len(OfTeam(t, punts, team))
                \* .join(banned_by_team, how="left")
                \* .fillna({"banned_punts": 0}), then .astype(int)
                banned_punts == IF team \in DOMAIN banned_by_team
                                THEN banned_by_team[team] ELSE 0
            IN  ("Team" :> team) @@
                ("Total Punts" :> total_punts) @@
                ("Banned Punts" :> banned_punts) @@
                ("% Banned" :> Round1(RatMul(Rat(banned_punts, total_punts), <<100, 1>>)))
    IN  SortDescending([k \in 1..Len(groups) |-> row(groups[k])],
                       "Banned Punts", Len(banned))

SITUATION_ORDER ==
    <<"Leading", "Tied", "Trailing (1 score)", "Trailing (2+ scores)">>

DashScoreSituation_Strict(diff) ==
    IF diff > 0 THEN "Leading"
    ELSE IF diff = 0 THEN "Tied"
    ELSE IF diff > -8 THEN "Trailing (1 score)"
    ELSE "Trailing (2+ scores)"

\* dashboard.py score_situation
DashScoreSituation(diff) ==
    IF diff > 0 THEN "Leading"
    ELSE IF diff = 0 THEN "Tied"
    ELSE IF diff >= -8 THEN "Trailing (1 score)"
    ELSE "Trailing (2+ scores)"

\* The situation labels in lexicographic order: the order in which
\* groupby("situation") lists the groups it finds.
SituationsSorted ==
    <<"Leading", "Tied", "Trailing (1 score)", "Trailing (2+ scores)">>

MeanYdstogo(t, g) ==
    IF g = <<>> THEN NaNRat ELSE Rat(SumInt(Column(t, g, "ydstogo")), Len(g))

\* .reindex(order): a row per label of order, in that order; the row of tbl
\* with that index where there is one, a row of NaN otherwise.
Reindex_Identity(tbl, order, cols) == tbl

Reindex(tbl, order, cols) ==
    [k \in 1..Len(order) |->
        LET hits == {j \in 1..Len(tbl) : tbl[j].index = order[k]}
        IN  IF hits = {} THEN [index |-> order[k]] @@ NaNRow(cols)
            ELSE tbl[CHOOSE j \in hits : TRUE]]

\* banned_scored.groupby("situation").agg(count=..., avg_ydstogo=...)
DashSituationGroups(t, banned) ==
    LET sit(i) == DashScoreSituation(t[i].score_differential)
        found  == SelectSeq(SituationsSorted,
                            LAMBDA s : \E k \in 1..Len(banned) : sit(banned[k]) = s)
    IN  [k \in 1..Len(found) |->
            LET g == SelectSeq(banned, LAMBDA i : sit(i) = found[k])
            IN  [index       |-> found[k],
                 count       |-> Rat(Len(g), 1),
                 avg_ydstogo |-> MeanYdstogo(t, g)]]

\* (df["count"] / n_banned * 100).round(1) if n_banned > 0 else 0
DashSituationPct_OfTotal(count, n_banned, n_total) ==
    IF n_banned > 0
    THEN Round1(RatMul(RatMul(count, Rat(1, n_total)), <<100, 1>>))
    ELSE <<0, 1>>

DashSituationPct(count, n_banned, n_total) ==
    IF n_banned > 0
    THEN Round1(RatMul(RatMul(count, Rat(1, n_banned)), <<100, 1>>))
    ELSE <<0, 1>>

\* situation_df, with its columns renamed and Avg Ydstogo rounded
DashSituationDf(t, banned, n_total) ==
    LET tbl == Reindex(DashSituationGroups(t, banned), SITUATION_ORDER,
                       {"count", "avg_ydstogo"})
    IN  [k \in 1..Len(tbl) |->
            ("Situation" :> tbl[k].index) @@
            ("Count" :> tbl[k].count) @@
            ("% of Banned" :> DashSituationPct(tbl[k].count, Len(banned), n_total)) @@
            ("Avg Ydstogo" :> Round1(tbl[k].avg_ydstogo))]

ComputePuntsBody(t, excl) ==
    LET punts        == Filter(t, AllRows(t), IsPunt)
        punts_in_opp == Filter(t, punts, InOppTerritory)
        punts_exempt == DashExempt(t, punts_in_opp, excl)
        banned       == DashBanned(t, punts_in_opp, excl)
        n_total      == Len(punts)
        n_banned     == Len(banned)
    IN  [punts        |-> punts,
         punts_in_opp |-> punts_in_opp,
         punts_exempt |-> punts_exempt,
         banned       |-> banned,
         team_table   |-> TeamTable(t, punts, banned),
         situation_df |-> DashSituationDf(t, banned, n_total),
         summary      |-> [total_punts   |-> n_total,
                           opp_territory |-> Len(punts_in_opp),
                           exempt        |-> Len(punts_exempt),
                           banned        |-> n_banned,
                           pct_banned    |-> Pct(n_banned, n_total)]]

----------------------------------------------------------------------------
(* Field goals: ufl_rule_analysis.py SECTION 2 and dashboard.py compute_fgs *)

IsFieldGoal(r) == r.play_type = "field_goal"

IsLongFg_Gt(r) == r.kick_distance # NaN /\ r.kick_distance[1] > LONG_FG

\* kick_distance >= 60
IsLongFg(r) == NumGe(r.kick_distance, LONG_FG)

IsMade(r) == r.field_goal_result = "made"

\* ("field_goal_result", "count"): the non-null results.
CountResults(t, f) == Len(Filter(t, f, LAMBDA r : r.field_goal_result # "NaN"))

\* ("field_goal_result", lambda x: (x == "made").sum())
CountMade(t, f) == Len(Filter(t, f, IsMade))

UflFieldGoals(t) ==
    LET fgs           == Filter(t, AllRows(t), IsFieldGoal)
        long_fgs      == Filter(t, fgs, IsLongFg)
        made_long_fgs == Filter(t, long_fgs, IsMade)
        n_made        == Len(made_long_fgs)
    IN  [fgs               |-> fgs,
         long_fgs          |-> long_fgs,
         made_long_fgs     |-> made_long_fgs,
         total_fg_attempts |-> Len(fgs),
         n_long_fg_att     |-> Len(long_fgs),
         n_long_fg_made    |-> n_made,
         extra_points      |-> n_made * 1,
         \* the "FG % from 60+ yards" line: the percentage, or N/A
         fg_pct_print      |-> IF Len(long_fgs) > 0
                               THEN <<"pct", Pct(n_made, Len(long_fgs))>>
                               ELSE <<"N/A">>,
         team_fgs          |->
            [team \in Teams(t, long_fgs) |->
                LET g == OfTeam(t, long_fgs, team)
                IN  [fg_att_60plus  |-> CountResults(t, g),
                     fg_made_60plus |-> CountMade(t, g),
                     extra_pts      |-> CountMade(t, g) * 1]]]

ComputeFgsBody(t) ==
    LET fgs       == Filter(t, AllRows(t), IsFieldGoal)
        long_fgs  == Filter(t, fgs, IsLongFg)
        made_long == Filter(t, long_fgs, IsMade)
        n_att     == Len(long_fgs)
        n_made    == Len(made_long)
    IN  [long_fgs  |-> long_fgs,
         made_long |-> made_long,
         summary   |-> [total_attempts |-> Len(fgs),
                        long_attempts  |-> n_att,
                        long_made      |-> n_made,
                        make_pct       |-> Pct(n_made, n_att),
                        extra_points   |-> n_made],
         team_fgs  |->
            [team \in Teams(t, long_fgs) |->
                LET g == OfTeam(t, long_fgs, team)
                IN  ("Attempts (60+)" :> CountResults(t, g)) @@
                    ("Made (60+)"     :> CountMade(t, g)) @@
                    ("Extra Pts"      :> CountMade(t, g))]]

----------------------------------------------------------------------------
(* Bucketing: pd.cut(ydstogo, bins, labels, right=True, include_lowest=True) *)

Fin(v) == <<v>>

Inf == <<>>

EdgeLt(e, x) == e # Inf /\ e[1] < x

\* dashboard.py (the en dash of the labels is written as a hyphen)
BUCKET_LABELS == <<"0-1", "2-3", "4-5", "6-10", "11+">>

BUCKET_BINS == <<Fin(0), Fin(1), Fin(3), Fin(5), Fin(10), Inf>>

\* banned_punt_analysis.py
BPA_BUCKET_LABELS == <<"0-1", "2-3", "4-5", "6-10", "11+">>

BPA_BUCKET_BINS_Drift == <<Fin(0), Fin(2), Fin(3), Fin(5), Fin(10), Inf>>

BPA_BUCKET_BINS == <<Fin(0), Fin(1), Fin(3), Fin(5), Fin(10), Inf>>

\* pd.cut with right=False: bins[i] <= x < bins[i+1]
Cut_RightOpen(x, bins, labels) ==
    LET i == Cardinality({k \in 1..Len(bins) : bins[k] # Inf /\ bins[k][1] <= x})
    IN  IF i < 1 \/ i > Len(labels) THEN "NaN" ELSE labels[i]

\* With right=True a value falls in bin i when bins[i] < x <= bins[i+1], which
\* pd.cut finds as the number of edges strictly below x; include_lowest puts
\* x = bins[1] in the first bin; a value in no bin gets NaN.
Cut(x, bins, labels) ==
    LET below == Cardinality({k \in 1..Len(bins) : EdgeLt(bins[k], x)})
        i     == IF x = bins[1][1] THEN 1 ELSE below
    IN  IF i < 1 \/ i > Len(labels) THEN "NaN" ELSE labels[i]

DashBucket(r) == Cut(r.ydstogo, BUCKET_BINS, BUCKET_LABELS)

BpaBucket(r) == Cut(r.ydstogo, BPA_BUCKET_BINS, BPA_BUCKET_LABELS)

\* banned_punt_analysis.py SECTION B brackets
IsShort(r) == r.ydstogo <= 2

IsMedium(r) == r.ydstogo >= 3 /\ r.ydstogo <= 5

IsLong(r) == r.ydstogo >= 6

Bracket(r) ==
    IF IsShort(r) THEN "short"
    ELSE IF IsMedium(r) THEN "medium"
    ELSE IF IsLong(r) THEN "long" ELSE "NaN"

----------------------------------------------------------------------------
(* The counterfactual expected-value model *)

IsFourthGo_AnyPlay(r) == NumEq(r.down, 4)

\* (pbp["down"] == 4) & (pbp["play_type"].isin(["run", "pass"]))
IsFourthGo(r) == NumEq(r.down, 4) /\ r.play_type \in {"run", "pass"}

IsConverted(r) == r.fourth_down_converted = 1

IsFailed(r) == r.fourth_down_converted = 0

ExpEpaGo_Swapped(conv_rate, epa_if_converted, epa_if_failed) ==
    RatAdd(RatMul(RatSub(One, conv_rate), epa_if_converted),
           RatMul(conv_rate, epa_if_failed))

ExpEpaGo_Rounded(conv_rate, epa_if_converted, epa_if_failed) ==
    RatAdd(RatMul(Round3(conv_rate), Round3(epa_if_converted)),
           RatMul(RatSub(One, Round3(conv_rate)), Round3(epa_if_failed)))

\* conv_rate * epa_if_converted + (1 - conv_rate) * epa_if_failed
ExpEpaGo(conv_rate, epa_if_converted, epa_if_failed) ==
    RatAdd(RatMul(conv_rate, epa_if_converted),
           RatMul(RatSub(One, conv_rate), epa_if_failed))

\* exp_epa_go - avg_punt_epa
EpaSwing(exp_epa_go, avg_punt_epa) == RatSub(exp_epa_go, avg_punt_epa)

\* ("fourth_down_converted", "mean") of a group
ConvRate(t, g) ==
    IF g = <<>> THEN NaNRat
    ELSE Rat(SumInt(Column(t, g, "fourth_down_converted")), Len(g))

MeanEpa(t, g) == MeanRat(Column(t, g, "epa"))

\* dashboard.py compute_epa_swing: the frame before its columns are renamed.
\* _attempts has a row per bucket observed among the go-for-it plays; the
\* joins are left joins on it, and reindex(BUCKET_LABELS) adds the other
\* buckets as all-NaN rows.
EpaColumns ==
    <<"go_attempts", "conv_rate">>      \* _attempts
    \o <<"epa_if_converted">>           \* .join(_epa_conv)
    \o <<"epa_if_failed">>              \* .join(_epa_fail)
    \o <<"avg_punt_epa">>               \* .join(_punt_epa)
    \o <<"exp_epa_go">>                 \* tbl["exp_epa_go"] = ...
    \o <<"epa_swing">>                  \* tbl["epa_swing"] = ...

\* tbl.columns = [...]: the labels are assigned by position.
EpaLabels ==
    <<"Go Attempts", "Conv Rate", "EPA if Conv", "EPA if Failed",
      "Exp EPA (Go)", "Avg Punt EPA", "EPA Swing">>

Range(s) == {s[k] : k \in 1..Len(s)}

Relabel(row, cols, labels) ==
    [l \in Range(labels) |->
        row[cols[CHOOSE k \in 1..Len(labels) : labels[k] = l]]]

EpaBanned_Ge(t, excl) ==
    LET punts_in_opp == Filter(t, AllRows(t),
                               LAMBDA r : IsPunt(r) /\ InOppTerritory(r))
    IN  IF excl THEN Filter(t, punts_in_opp, OutsideTwoMin_Ge) ELSE punts_in_opp

\* punts_in_opp[punts_in_opp["half_seconds_remaining"] > 120].copy()
\* if exclude_2min else punts_in_opp.copy()
EpaBanned(t, excl) ==
    LET punts_in_opp == Filter(t, AllRows(t),
                               LAMBDA r : IsPunt(r) /\ InOppTerritory(r))
    IN  IF excl THEN Filter(t, punts_in_opp, OutsideTwoMin) ELSE punts_in_opp

EpaRow(t, fourth_go, banned, b) ==
    LET go   == Filter(t, fourth_go, LAMBDA r : DashBucket(r) = b)
        conv == Filter(t, go, IsConverted)
        fail == Filter(t, go, IsFailed)
        pnt  == Filter(t, banned, LAMBDA r : DashBucket(r) = b)
        exp  == ExpEpaGo(ConvRate(t, go), MeanEpa(t, conv), MeanEpa(t, fail))
    IN  IF go = <<>> THEN NaNRow(Range(EpaColumns))
        ELSE [go_attempts      |-> Rat(Len(go), 1),
              conv_rate        |-> ConvRate(t, go),
              epa_if_converted |-> MeanEpa(t, conv),
              epa_if_failed    |-> MeanEpa(t, fail),
              avg_punt_epa     |-> MeanEpa(t, pnt),
              exp_epa_go       |-> exp,
              epa_swing        |-> EpaSwing(exp, MeanEpa(t, pnt))]

\* The index of fourth_go.groupby("bucket", observed=True): the buckets
\* observed among the go-for-it plays, in the order of the categories.
EpaObserved(t, fourth_go) ==
    LET found == SelectSeq(BUCKET_LABELS,
                           LAMBDA b : \E k \in 1..Len(fourth_go) :
                                         DashBucket(t[fourth_go[k]]) = b)
    IN  [k \in 1..Len(found) |-> [index |-> found[k]]]

\* The index of a table: the labels of its rows, in order.
Index(tbl) == [k \in 1..Len(tbl) |-> tbl[k].index]

ComputeEpaSwingBody(t, excl) ==
    LET banned    == EpaBanned(t, excl)
        fourth_go == Filter(t, AllRows(t), IsFourthGo)
    IN  [banned    |-> banned,
         fourth_go |-> fourth_go,
         index     |-> Index(Reindex(EpaObserved(t, fourth_go), BUCKET_LABELS, {})),
         frame     |-> [b \in Range(BUCKET_LABELS) |->
                           EpaRow(t, fourth_go, banned, b)],
         tbl       |-> [b \in Range(BUCKET_LABELS) |->
                           Relabel(EpaRow(t, fourth_go, banned, b),
                                   EpaColumns, EpaLabels)]]

\* banned_punt_analysis.py SECTION D: conversion_stats is reindexed to all
\* five buckets before punt_epa_by_bucket is joined, and columns keep their
\* names.
BpaResultsRow(t, fourth_go, banned_punts, b) ==
    LET go   == Filter(t, fourth_go, LAMBDA r : BpaBucket(r) = b)
        conv == Filter(t, go, IsConverted)
        fail == Filter(t, go, IsFailed)
        pnt  == Filter(t, banned_punts, LAMBDA r : BpaBucket(r) = b)
        exp  == ExpEpaGo(ConvRate(t, go), MeanEpa(t, conv), MeanEpa(t, fail))
    IN  [go_attempts      |-> IF go = <<>> THEN NaNRat ELSE Rat(Len(go), 1),
         conversions      |-> IF go = <<>> THEN NaNRat
                              ELSE Rat(SumInt(Column(t, go, "fourth_down_converted")), 1),
         conv_rate        |-> ConvRate(t, go),
         epa_if_converted |-> MeanEpa(t, conv),
         epa_if_failed    |-> MeanEpa(t, fail),
         exp_epa_go       |-> exp,
         avg_punt_epa     |-> MeanEpa(t, pnt),
         epa_swing        |-> EpaSwing(exp, MeanEpa(t, pnt))]

----------------------------------------------------------------------------
(* dashboard.py: compute_tush_push *)

\* The primary quarterback of a team in a game: of the pass attempts of the
\* group, x.dropna().mode().iloc[0], the most frequent passer id and the
\* smallest of them on a tie; NaN when the group has no passer id.
PrimaryQb(t, game, team) ==
    LET passes == {i \in 1..Len(t) : /\ t[i].pass_attempt = 1
                                      /\ t[i].game_id = game
                                      /\ t[i].posteam = team
                                      /\ t[i].passer_player_id # NaN}
        ids    == {t[i].passer_player_id[1] : i \in passes}
        n(id)  == Cardinality({i \in passes : t[i].passer_player_id = Val(id)})
        modes  == {id \in ids : \A o \in ids : n(o) <= n(id)}
    IN  IF ids = {} THEN NaN
        ELSE Val(CHOOSE m \in modes : \A o \in modes : m <= o)

\* The qb_sneak column when the table has it and it is populated, else the
\* rushes with one yard to go by the primary quarterback.
Sneaks(t) ==
    IF "qb_sneak" \in columns
       /\ SumInt(Column(t, AllRows(t), "qb_sneak")) > 0
    THEN Filter(t, AllRows(t), LAMBDA r : r.qb_sneak = 1)
    ELSE Filter(t, AllRows(t),
                LAMBDA r : /\ r.rush_attempt = 1
                           /\ r.ydstogo = 1
                           /\ r.rusher_player_id # NaN
                           /\ r.rusher_player_id
                                  = PrimaryQb(t, r.game_id, r.posteam))

IsCritical_AnyDown(r) == TRUE

\* sneaks["down"].isin([3, 4])
IsCritical(r) == r.down \in {Val(3), Val(4)}

Converted(r) ==
    \/ r.down = Val(3) /\ r.third_down_converted = 1
    \/ r.down = Val(4) /\ r.fourth_down_converted = 1

\* sneaks_crit["converted"].mean() if len(sneaks_crit) > 0 else 0.0
ConversionRate(t, crit) ==
    IF Len(crit) > 0 THEN Rat(Len(Filter(t, crit, Converted)), Len(crit))
    ELSE <<0, 1>>

\* eagles.groupby("situation").size(): the observed situations in sorted order
EaglesSituationGroups(t, eagles) ==
    LET sit(i) == DashScoreSituation(t[i].score_differential)
        found  == SelectSeq(SituationsSorted,
                            LAMBDA s : \E k \in 1..Len(eagles) : sit(eagles[k]) = s)
    IN  [k \in 1..Len(found) |->
            [index |-> found[k],
             Count |-> Rat(Len(SelectSeq(eagles, LAMBDA i : sit(i) = found[k])),
                           1)]]

\* pbp.groupby("game_id").agg(home_team first, final_home max, final_away
\* max), looked up for one game
TushFinal(t, game) ==
    LET plays == {i \in 1..Len(t) : t[i].game_id = game}
        first == CHOOSE i \in plays : \A j \in plays : i <= j
    IN  [home_team  |-> t[first].home_team,
         final_home |-> CHOOSE m \in {t[i].total_home_score : i \in plays} :
                           \A i \in plays : t[i].total_home_score <= m,
         final_away |-> CHOOSE m \in {t[i].total_away_score : i \in plays} :
                           \A i \in plays : t[i].total_away_score <= m]

\* The games of critical_game_ids that PHI won, at home or away
WinsCrit(t, critical_game_ids) ==
    Cardinality({gid \in critical_game_ids :
                    LET final == TushFinal(t, gid)
                    IN  \/ /\ final.home_team = "PHI"
                           /\ final.final_home > final.final_away
                        \/ /\ final.home_team # "PHI"
                           /\ final.final_away > final.final_home})

ComputeTushPushBody(t) ==
    LET sneaks      == Sneaks(t)
        sneaks_crit == Filter(t, sneaks, IsCritical)
        eagles      == Filter(t, sneaks, LAMBDA r : r.posteam = "PHI")
        eagles_crit == Filter(t, sneaks_crit, LAMBDA r : r.posteam = "PHI")
        \* set(eagles_crit[eagles_crit["converted"]]["game_id"].unique())
        critical_game_ids ==
            {t[i].game_id : i \in Range(Filter(t, eagles_crit, Converted))}
    IN  [n_total      |-> Len(sneaks),
         league_conv  |-> ConversionRate(t, sneaks_crit),
         n_eagles     |-> Len(eagles),
         eagles_conv  |-> ConversionRate(t, eagles_crit),
         n_crit_games |-> Cardinality(critical_game_ids),
         wins_crit    |-> WinsCrit(t, critical_game_ids),
         \* sneaks.groupby("posteam").size(), by team
         team_counts  |-> [team \in Teams(t, sneaks) |->
                              Len(OfTeam(t, sneaks, team))],
         \* eagles.groupby("down").size(), by observed down
         by_down      |-> [d \in {t[i].down : i \in Range(eagles)} \ {NaN} |->
                              Len(Filter(t, eagles, LAMBDA r : r.down = d))],
         \* .reindex(BUCKET_LABELS).fillna(0).astype(int)
         by_ydstogo   |-> [k \in 1..Len(BUCKET_LABELS) |->
                             [index |-> BUCKET_LABELS[k],
                              Count |-> Len(Filter(t, eagles,
                                          LAMBDA r : DashBucket(r)
                                                       = BUCKET_LABELS[k]))]],
         \* .reindex(SITUATION_ORDER), not filled
         by_situation |-> Reindex(EaglesSituationGroups(t, eagles),
                                  SITUATION_ORDER, {"Count"})]

----------------------------------------------------------------------------
(* The feeds the provider can return *)

PuntYardlines == {45, 49, 50}

PuntClocks == {90, 100, 120, 121}

PuntRows ==
    {Play("REG", "punt", "PHI", yl, hsr, Val(4), 4, 0, <<0, 1>>, 0, NaN, "NaN") :
        yl \in PuntYardlines, hsr \in PuntClocks}
    \cup {Play("REG", "run", "PHI", 45, 121, Val(4), 4, 0, <<0, 1>>, 0, NaN, "NaN"),
          Play("POST", "punt", "PHI", 45, 121, Val(4), 4, 0, <<0, 1>>, 0, NaN, "NaN")}

PuntTables == Tables(PuntRows, MaxPlays)

KickDistances == {Val(58), Val(59), Val(60), Val(61), NaN}

FgResults == {"made", "missed", "blocked"}

FgRows ==
    {Play("REG", "field_goal", team, 40, 900, Val(4), 5, 0, <<0, 1>>, 0, kd, fgr) :
        team \in {"PHI", "DAL"}, kd \in KickDistances, fgr \in FgResults}
    \cup {Play("REG", "punt", "PHI", 40, 900, Val(4), 5, 0, <<0, 1>>, 0, Val(61), "NaN")}

FgTables == Tables(FgRows, MaxPlays)

GoRow(pt, dn, ytg, fdc, e) ==
    Play("REG", pt, "PHI", 45, 900, dn, ytg, 0, e, fdc, NaN, "NaN")

PuntRow(hsr, ytg, e) ==
    Play("REG", "punt", "PHI", 45, hsr, Val(4), ytg, 0, e, 0, NaN, "NaN")

EpaRows ==
    {GoRow("run", Val(4), 1, 1, <<6, 5>>),
     GoRow("pass", Val(4), 1, 1, <<2, 5>>),
     GoRow("run", Val(4), 1, 0, <<-3, 2>>),
     GoRow("pass", Val(4), 4, 0, <<-1, 2>>),
     GoRow("run", Val(3), 1, 1, <<1, 1>>),
     GoRow("field_goal", Val(4), 1, 0, <<3, 1>>),
     PuntRow(121, 1, <<-4, 5>>),
     PuntRow(90, 1, <<-1, 5>>)}

\* The bucket of the concrete scenario: 10 go-for-it plays of which 6
\* converted (mean EPA +1.2) and 4 failed (mean EPA -1.5), and banned punts
\* of mean EPA -0.8.
ScenarioTable ==
    <<GoRow("run", Val(4), 1, 1, <<6, 5>>), GoRow("pass", Val(4), 1, 1, <<6, 5>>),
      GoRow("run", Val(4), 1, 1, <<1, 1>>), GoRow("pass", Val(4), 1, 1, <<7, 5>>),
      GoRow("run", Val(4), 1, 1, <<4, 5>>), GoRow("run", Val(4), 1, 1, <<8, 5>>),
      GoRow("run", Val(4), 1, 0, <<-3, 2>>), GoRow("pass", Val(4), 1, 0, <<-1, 1>>),
      GoRow("pass", Val(4), 1, 0, <<-2, 1>>), GoRow("run", Val(4), 1, 0, <<-3, 2>>),
      PuntRow(121, 1, <<-1, 1>>), PuntRow(900, 1, <<-3, 5>>)>>

\* Three go-for-it plays of which two converted, and three punts of which
\* two are banned when the two-minute exemption applies.
ThirdsTable ==
    <<GoRow("run", Val(4), 1, 1, <<6, 5>>),
      GoRow("pass", Val(4), 1, 1, <<2, 5>>),
      GoRow("run", Val(4), 1, 0, <<-3, 2>>),
      PuntRow(121, 1, <<-4, 5>>),
      PuntRow(121, 1, <<-1, 5>>),
      PuntRow(90, 1, <<-1, 5>>)>>

EpaTables == Tables(EpaRows, MaxEpaPlays) \cup {ScenarioTable, ThirdsTable}

SitPunt(hsr, ytg, sd) ==
    Play("REG", "punt", "PHI", 45, hsr, Val(4), ytg, sd, <<0, 1>>, 0, NaN, "NaN")

ScoreDifferentials == {3, 0, -8, -9}

SitRows ==
    {SitPunt(900, ytg, sd) : ytg \in {1, 3, 11}, sd \in ScoreDifferentials}
    \cup {SitPunt(100, 1, 3),
          GoRow("run", Val(4), 1, 1, <<6, 5>>),
          GoRow("pass", Val(4), 4, 0, <<-1, 2>>)}

\* n copies of a row
Copies(n, row) == [k \in 1..n |-> row]

\* 14 banned punts: one in each of the buckets 0-1, 2-3, 4-5, 6-10 and ten
\* in 11+
FourteenPunts ==
    <<SitPunt(900, 1, 3), SitPunt(900, 3, 0), SitPunt(900, 5, -8),
      SitPunt(900, 10, -9)>> \o Copies(10, SitPunt(900, 11, 3))

\* 16 banned punts: one tied, one trailing by 8, one trailing by 9 and
\* thirteen leading
SixteenPunts ==
    <<SitPunt(900, 1, 0), SitPunt(900, 1, -8), SitPunt(900, 1, -9)>>
    \o Copies(13, SitPunt(900, 1, 3))

SitTables == Tables(SitRows, MaxSitPlays) \cup {FourteenPunts, SixteenPunts}

----------------------------------------------------------------------------
(* The programs *)

Put(f, k, v) == (k :> v) @@ f

Programs == {"ufl_rule_analysis", "banned_punt_analysis", "dashboard"}

\* The sidebar defaults, empty caches, and a provider that answers with all
\* the columns.
SessionInit ==
    /\ season = DefaultSeason
    /\ min_punts = 0
    /\ now = 0
    /\ up = TRUE
    /\ columns = AllColumns
    /\ feed = <<>>
    /\ pbp_cache = <<>>
    /\ tush_cache = <<>>
    /\ stamps = <<>>
    /\ screen = <<>>

Init ==
    /\ prog \in Programs
    /\ pc = "load"
    /\ pbp = <<>>
    /\ ufl = <<>>
    /\ bpa = <<>>
    /\ exclude_2min = TRUE
    /\ punts_cache = <<>>
    /\ fgs_cache = <<>>
    /\ epa_cache = <<>>
    /\ ui = <<>>
    /\ arg = <<>>
    /\ res = <<>>
    /\ SessionInit

\* An exception: its class and, of a KeyError, the column looked up.
KeyError(column) == [exception |-> "KeyError", columns |-> {column}]

ZeroDivisionError == [exception |-> "ZeroDivisionError", columns |-> {}]

\* whatever nfl.import_pbp_data raises when the provider cannot be reached
ProviderError == [exception |-> "ProviderError", columns |-> {}]

\* What the user is shown: the kind of the message, the label of the
\* sub-analysis and the columns that it names, the exception that it reports.
Message(kind, label, cols, exception) ==
    [kind |-> kind, label |-> label, columns |-> cols, exception |-> exception]

\* An exception no handler catches ends a script with a traceback.
Traceback(e) == Message("Traceback", "", e.columns, e.exception)

Raise(e) ==
    /\ pc' = e.exception
    /\ screen' = Put(screen, "error", Traceback(e))

\* The columns of reads, in the order they are read, that the table lacks:
\* the lookup of the first of them raises KeyError.
Unread(reads) == SelectSeq(reads, LAMBDA c : c \notin columns)

\* pbp[pbp["season_type"] == "REG"]
LoadReads == <<"season_type">>

\* ufl_rule_analysis.py SECTION 1
UflSection1Reads ==
    <<"play_type", "yardline_100", "half_seconds_remaining", "posteam">>

\* ufl_rule_analysis.py SECTION 2
UflSection2Reads ==
    <<"play_type", "kick_distance", "field_goal_result", "posteam">>

UflSection2bReads ==
    <<"game_id", "total_home_score", "total_away_score", "posteam", "home_team">>

\* banned_punt_analysis.py, by section
BpaBannedReads == <<"play_type", "yardline_100", "half_seconds_remaining">>

BpaSectionAReads == <<"ydstogo">>

BpaSectionBReads == <<"ydstogo">>

BpaSectionDReads ==
    <<"epa", "down", "play_type", "ydstogo", "fourth_down_converted">>

BpaSectionFReads == <<"score_differential", "ydstogo">>

BpaSectionEReads == <<"wp", "wpa">>

BpaSectionGReads == <<"score_differential">>

\* ufl_rule_analysis.py: pbp = nfl.import_pbp_data(...); REG filter
UflLoad(tables) ==
    /\ prog = "ufl_rule_analysis" /\ pc = "load"
    /\ IF ~up
       THEN Raise(ProviderError) /\ pbp' = pbp
       ELSE \E raw \in tables :
               IF Unread(LoadReads) # <<>>
               THEN Raise(KeyError(Head(Unread(LoadReads)))) /\ pbp' = raw
               ELSE /\ pbp' = RegularSeason(raw)
                    /\ pc' = "section1"
                    /\ screen' = screen
    /\ UNCHANGED <<prog, ufl, bpa, exclude_2min, punts_cache, fgs_cache,
                   epa_cache, ui, arg, res, offscreen>>

UflSection1 ==
    /\ prog = "ufl_rule_analysis" /\ pc = "section1"
    /\ IF Unread(UflSection1Reads) # <<>>
       THEN Raise(KeyError(Head(Unread(UflSection1Reads)))) /\ ufl' = ufl
       ELSE /\ ufl' = UflPunts(pbp) @@ ufl
           /\ pc' = "section2"
            /\ screen' = screen
    /\ UNCHANGED <<prog, pbp, bpa, exclude_2min, punts_cache, fgs_cache,
                   epa_cache, ui, arg, res, offscreen>>

UflSection2 ==
    /\ prog = "ufl_rule_analysis" /\ pc = "section2"
    /\ IF Unread(UflSection2Reads) # <<>>
       THEN Raise(KeyError(Head(Unread(UflSection2Reads)))) /\ ufl' = ufl
       ELSE /\ ufl' = UflFieldGoals(pbp) @@ ufl
           /\ pc' = "section2b"
            /\ screen' = screen
    /\ UNCHANGED <<prog, pbp, bpa, exclude_2min, punts_cache, fgs_cache,
                   epa_cache, ui, arg, res, offscreen>>

\* The maximum of a non-empty set of scores
MaxOf(S) == CHOOSE m \in S : \A o \in S : o <= m

\* final_scores: pbp.groupby("game_id").agg(max of total_home_score, max of
\* total_away_score), looked up for one game
FinalScores(t, game) ==
    LET plays == {i \in 1..Len(t) : t[i].game_id = game}
    IN  [final_home_score |-> MaxOf({t[i].total_home_score : i \in plays}),
         final_away_score |-> MaxOf({t[i].total_away_score : i \in plays})]

TeamMargin_Home(r, final) == final.final_home_score - final.final_away_score

\* (final_home_score - final_away_score).where(posteam == home_team,
\*                                             final_away_score - final_home_score)
TeamMargin(r, final) ==
    IF r.posteam = r.home_team
    THEN final.final_home_score - final.final_away_score
    ELSE final.final_away_score - final.final_home_score

\* SECTION 2b: made_with_result, a row per made 60+ yard field goal with the
\* final score of its game merged on game_id, and lost_by_1
UflLostByOne(t, made_long_fgs) ==
    LET made_with_result ==
            [k \in 1..Len(made_long_fgs) |->
                LET r     == t[made_long_fgs[k]]
                    final == FinalScores(t, r.game_id)
                IN  [play             |-> made_long_fgs[k],
                     final_home_score |-> final.final_home_score,
                     final_away_score |-> final.final_away_score,
                     team_margin      |-> TeamMargin(r, final)]]
        lost_by_1 == SelectSeq(made_with_result,
                               LAMBDA row : row.team_margin = 0 - 1)
    IN  [made_with_result |-> made_with_result,
         lost_by_1        |-> lost_by_1,
         n_lost_by_1      |-> Len(lost_by_1)]

UflSection2b ==
    /\ prog = "ufl_rule_analysis" /\ pc = "section2b"
    /\ IF Unread(UflSection2bReads) # <<>>
       THEN Raise(KeyError(Head(Unread(UflSection2bReads)))) /\ ufl' = ufl
       ELSE /\ ufl' = UflLostByOne(pbp, ufl.made_long_fgs) @@ ufl
           /\ pc' = "done"
            /\ screen' = screen
    /\ UNCHANGED <<prog, pbp, bpa, exclude_2min, punts_cache, fgs_cache,
                   epa_cache, ui, arg, res, offscreen>>

\* banned_punt_analysis.py: load
BpaLoad(tables) ==
    /\ prog = "banned_punt_analysis" /\ pc = "load"
    /\ IF ~up
       THEN Raise(ProviderError) /\ pbp' = pbp
       ELSE \E raw \in tables :
               IF Unread(LoadReads) # <<>>
               THEN Raise(KeyError(Head(Unread(LoadReads)))) /\ pbp' = raw
               ELSE /\ pbp' = RegularSeason(raw)
                    /\ pc' = "banned"
                    /\ screen' = screen
    /\ UNCHANGED <<prog, ufl, bpa, exclude_2min, punts_cache, fgs_cache,
                   epa_cache, ui, arg, res, offscreen>>

\* Isolate banned punts
BpaBannedPunts(t) ==
    LET punts        == Filter(t, AllRows(t), IsPunt)
        punts_in_opp == Filter(t, punts, InOppTerritory)
        banned_punts == Filter(t, punts_in_opp, OutsideTwoMin)
    IN  [punts        |-> punts,
         punts_in_opp |-> punts_in_opp,
         banned_punts |-> banned_punts,
         n_banned     |-> Len(banned_punts)]

BpaBanned ==
    /\ prog = "banned_punt_analysis" /\ pc = "banned"
    /\ IF Unread(BpaBannedReads) # <<>>
       THEN Raise(KeyError(Head(Unread(BpaBannedReads)))) /\ bpa' = bpa
       ELSE /\ bpa' = BpaBannedPunts(pbp) @@ bpa
           /\ pc' = "sectionA"
            /\ screen' = screen
    /\ UNCHANGED <<prog, pbp, ufl, exclude_2min, punts_cache, fgs_cache,
                   epa_cache, ui, arg, res, offscreen>>

\* SECTION A: pd.cut(...).value_counts().reindex(BUCKET_LABELS)
BpaBucketCounts(t, banned_punts) ==
    [b \in Range(BPA_BUCKET_LABELS) |->
        Len(Filter(t, banned_punts, LAMBDA r : BpaBucket(r) = b))]

\* pd.cut(...).value_counts(): a row per category, the most frequent first
BpaValueCounts(t, banned_punts) ==
    SortDescending(
        [k \in 1..Len(BPA_BUCKET_LABELS) |->
            [index |-> BPA_BUCKET_LABELS[k],
             count |-> BpaBucketCounts(t, banned_punts)[BPA_BUCKET_LABELS[k]]]],
        "count", Len(banned_punts))

\* bucket_table: bucket_counts reindexed to BUCKET_LABELS, and
\* bucket_pct = (bucket_counts / n_banned * 100).round(1)
BpaBucketTable(t, banned_punts) ==
    LET counts == Reindex(BpaValueCounts(t, banned_punts), BPA_BUCKET_LABELS,
                          {"count"})
    IN  [k \in 1..Len(counts) |->
            [index |-> counts[k].index,
             count |-> counts[k].count,
             pct   |-> Round1(RatMul(Rat(counts[k].count, Len(banned_punts)),
                                     <<100, 1>>))]]

BpaSectionA ==
    /\ prog = "banned_punt_analysis" /\ pc = "sectionA"
    /\ IF Unread(BpaSectionAReads) # <<>>
       THEN Raise(KeyError(Head(Unread(BpaSectionAReads)))) /\ bpa' = bpa
       ELSE /\ bpa' = [bucket_counts |-> BpaBucketCounts(pbp, bpa.banned_punts),
                      bucket_table  |-> BpaBucketTable(pbp, bpa.banned_punts)] @@ bpa
           /\ pc' = "sectionB"
            /\ screen' = screen
    /\ UNCHANGED <<prog, pbp, ufl, exclude_2min, punts_cache, fgs_cache,
                   epa_cache, ui, arg, res, offscreen>>

\* SECTION B: the three brackets; the percentages printed with them divide
\* Python ints by n_banned.
BpaBrackets(t, banned_punts) ==
    [short  |-> Filter(t, banned_punts, IsShort),
     medium |-> Filter(t, banned_punts, IsMedium),
     long_  |-> Filter(t, banned_punts, IsLong)]

\* The lines Section B prints: len(bracket) and len(bracket)/n_banned*100
\* formatted with one decimal.
BpaBracketLines(brackets, n_banned) ==
    [b \in {"short", "medium", "long_"} |->
        [count |-> Len(brackets[b]),
         pct   |-> Round1(RatMul(Rat(Len(brackets[b]), n_banned), <<100, 1>>))]]

BpaSectionB ==
    /\ prog = "banned_punt_analysis" /\ pc = "sectionB"
    /\ LET brackets == BpaBrackets(pbp, bpa.banned_punts)
       IN  IF Unread(BpaSectionBReads) # <<>>
           THEN Raise(KeyError(Head(Unread(BpaSectionBReads)))) /\ bpa' = bpa
           ELSE IF bpa.n_banned = 0
           THEN /\ bpa' = brackets @@ bpa
                /\ Raise(ZeroDivisionError)
           ELSE /\ bpa' = brackets @@
                          [bracket_lines |-> BpaBracketLines(brackets, bpa.n_banned)]
                          @@ bpa
                /\ pc' = "sectionD"
                /\ screen' = screen
    /\ UNCHANGED <<prog, pbp, ufl, exclude_2min, punts_cache, fgs_cache,
                   epa_cache, ui, arg, res, offscreen>>

\* SECTIONS C and D: fourth_go, conversion_stats, results
\* The index of fourth_go_bucketed.groupby("bucket", observed=True)
BpaObserved(t, fourth_go) ==
    LET found == SelectSeq(BPA_BUCKET_LABELS,
                           LAMBDA b : \E k \in 1..Len(fourth_go) :
                                         BpaBucket(t[fourth_go[k]]) = b)
    IN  [k \in 1..Len(found) |-> [index |-> found[k]]]

\* SECTION D: display = results[[...]].copy() with its columns formatted;
\* results keeps its values.
BpaDisplayRow(row) ==
    [go_attempts      |-> row.go_attempts,
     conv_rate        |-> Percent1(row.conv_rate),
     epa_if_converted |-> Round3(row.epa_if_converted),
     epa_if_failed    |-> Round3(row.epa_if_failed),
     exp_epa_go       |-> Round3(row.exp_epa_go),
     avg_punt_epa     |-> Round3(row.avg_punt_epa),
     epa_swing        |-> Round3(row.epa_swing)]

BpaResults(t, banned_punts) ==
    LET fourth_go == Filter(t, AllRows(t), IsFourthGo)
    IN  [fourth_go |-> fourth_go,
         display   |-> [b \in Range(BPA_BUCKET_LABELS) |->
                           BpaDisplayRow(BpaResultsRow(t, fourth_go,
                                                       banned_punts, b))],
         \* conversion_stats = _attempts.join(...).reindex(BUCKET_LABELS)
         results_index |-> Index(Reindex(BpaObserved(t, fourth_go),
                                         BPA_BUCKET_LABELS, {})),
         results   |-> [b \in Range(BPA_BUCKET_LABELS) |->
                           BpaResultsRow(t, fourth_go, banned_punts, b)]]

BpaSectionD ==
    /\ prog = "banned_punt_analysis" /\ pc = "sectionD"
    /\ IF Unread(BpaSectionDReads) # <<>>
       THEN Raise(KeyError(Head(Unread(BpaSectionDReads)))) /\ bpa' = bpa
       ELSE /\ bpa' = BpaResults(pbp, bpa.banned_punts) @@ bpa
           /\ pc' = "sectionE"
            /\ screen' = screen
    /\ UNCHANGED <<prog, pbp, ufl, exclude_2min, punts_cache, fgs_cache,
                   epa_cache, ui, arg, res, offscreen>>

\* (frame["wp"] + frame["wpa"]).mean()
MeanPostWp(t, g) ==
    MeanRat([k \in 1..Len(g) |-> RatAdd(t[g[k]].wp, t[g[k]].wpa)])

\* conv_rate * wp_if_converted + (1 - conv_rate) * wp_if_failed
ExpWpGo(conv_rate, wp_if_converted, wp_if_failed) ==
    RatAdd(RatMul(conv_rate, wp_if_converted),
           RatMul(RatSub(One, conv_rate), wp_if_failed))

\* exp_wp_go - avg_post_punt_wp
WpSwing(exp_wp_go, avg_post_punt_wp) == RatSub(exp_wp_go, avg_post_punt_wp)

\* SECTION E: wp_results.  conv_rate is the column of conversion_stats, which
\* has all five buckets when punt_wp_by_bucket is joined.
BpaWpResultsRow(t, fourth_go, banned_punts, b) ==
    LET go   == Filter(t, fourth_go, LAMBDA r : BpaBucket(r) = b)
        conv == Filter(t, go, IsConverted)
        fail == Filter(t, go, IsFailed)
        pnt  == Filter(t, banned_punts, LAMBDA r : BpaBucket(r) = b)
        exp  == ExpWpGo(ConvRate(t, go), MeanPostWp(t, conv), MeanPostWp(t, fail))
    IN  [conv_rate        |-> ConvRate(t, go),
         wp_if_converted  |-> MeanPostWp(t, conv),
         wp_if_failed     |-> MeanPostWp(t, fail),
         avg_post_punt_wp |-> MeanPostWp(t, pnt),
         exp_wp_go        |-> exp,
         wp_swing         |-> WpSwing(exp, MeanPostWp(t, pnt))]

\* SECTION E: the headline numbers and wp_results
BpaWpResults(t, banned_punts, fourth_go) ==
    LET conv == Filter(t, fourth_go, IsConverted)
        fail == Filter(t, fourth_go, IsFailed)
    IN  [avg_wp_before_punt |-> MeanRat(Column(t, banned_punts, "wp")),
         avg_wp_after_punt  |-> MeanPostWp(t, banned_punts),
         avg_wp_go_overall  |-> ExpWpGo(ConvRate(t, fourth_go),
                                        MeanPostWp(t, conv), MeanPostWp(t, fail)),
         wp_results         |-> [b \in Range(BPA_BUCKET_LABELS) |->
                                    BpaWpResultsRow(t, fourth_go, banned_punts, b)]]

BpaSectionE ==
    /\ prog = "banned_punt_analysis" /\ pc = "sectionE"
    /\ IF Unread(BpaSectionEReads) # <<>>
       THEN Raise(KeyError(Head(Unread(BpaSectionEReads)))) /\ bpa' = bpa
       ELSE /\ bpa' = BpaWpResults(pbp, bpa.banned_punts, bpa.fourth_go) @@ bpa
            /\ pc' = "sectionF"
            /\ screen' = screen
    /\ UNCHANGED <<prog, pbp, ufl, exclude_2min, punts_cache, fgs_cache,
                   epa_cache, ui, arg, res, offscreen>>

BPA_SITUATION_ORDER ==
    <<"Leading", "Tied", "Trailing (1 score)", "Trailing (2+ scores)">>

\* banned_punt_analysis.py score_situation
BpaScoreSituation(diff) ==
    IF diff > 0 THEN "Leading"
    ELSE IF diff = 0 THEN "Tied"
    ELSE IF diff >= -8 THEN "Trailing (1 score)"
    ELSE "Trailing (2+ scores)"

\* banned_punts_scored.groupby("situation").agg(count=..., avg_ydstogo=...)
BpaSituationGroups(t, banned_punts) ==
    LET sit(i) == BpaScoreSituation(t[i].score_differential)
        found  == SelectSeq(SituationsSorted,
                            LAMBDA s : \E k \in 1..Len(banned_punts) :
                                          sit(banned_punts[k]) = s)
    IN  [k \in 1..Len(found) |->
            LET g == SelectSeq(banned_punts, LAMBDA i : sit(i) = found[k])
            IN  [index       |-> found[k],
                 count       |-> Rat(Len(g), 1),
                 avg_ydstogo |-> MeanYdstogo(t, g)]]

\* situation_stats: reindexed to SITUATION_ORDER, with pct and the rounded
\* avg_ydstogo
BpaSituationStats(t, banned_punts) ==
    LET tbl == Reindex(BpaSituationGroups(t, banned_punts), BPA_SITUATION_ORDER,
                       {"count", "avg_ydstogo"})
    IN  [k \in 1..Len(tbl) |->
            [index       |-> tbl[k].index,
             count       |-> tbl[k].count,
             avg_ydstogo |-> Round1(tbl[k].avg_ydstogo),
             pct         |-> Round1(RatMul(RatMul(tbl[k].count,
                                                  Rat(1, Len(banned_punts))),
                                           <<100, 1>>))]]

\* The Section F printout: for situation, row in situation_stats.iterrows():
\* if pd.isna(row["count"]): continue; print(...)
BpaSituationLines(situation_stats) ==
    SelectSeq(situation_stats, LAMBDA row : ~IsNaN(row.count))

BpaSectionF ==
    /\ prog = "banned_punt_analysis" /\ pc = "sectionF"
    /\ IF Unread(BpaSectionFReads) # <<>>
       THEN Raise(KeyError(Head(Unread(BpaSectionFReads)))) /\ bpa' = bpa
       ELSE /\ LET stats == BpaSituationStats(pbp, bpa.banned_punts)
              IN  bpa' = [situation_stats |-> stats,
                          situation_lines |-> BpaSituationLines(stats)] @@ bpa
           /\ pc' = "sectionG"
            /\ screen' = screen
    /\ UNCHANGED <<prog, pbp, ufl, exclude_2min, punts_cache, fgs_cache,
                   epa_cache, ui, arg, res, offscreen>>

\* SECTION G: the leading-only populations and the headline share
\* n_leading / n_banned * 100, printed with one decimal
GColumns ==
    {"go_attempts", "conv_rate", "wp_if_converted", "wp_if_failed",
     "punt_count", "avg_post_punt_wp", "exp_wp_go", "wp_swing"}

\* SECTION G: g_results.  _lead_attempts has a row per bucket observed among
\* the leading go-for-it plays; the joins are left joins on it, and
\* reindex(BUCKET_LABELS) adds the other buckets as all-NaN rows.
BpaLeadingRow(t, fourth_go_leading, leading_banned, b) ==
    LET go   == Filter(t, fourth_go_leading, LAMBDA r : BpaBucket(r) = b)
        conv == Filter(t, go, IsConverted)
        fail == Filter(t, go, IsFailed)
        pnt  == Filter(t, leading_banned, LAMBDA r : BpaBucket(r) = b)
        exp  == ExpWpGo(ConvRate(t, go), MeanPostWp(t, conv), MeanPostWp(t, fail))
    IN  IF go = <<>> THEN NaNRow(GColumns)
        ELSE [go_attempts      |-> Rat(Len(go), 1),
              conv_rate        |-> ConvRate(t, go),
              wp_if_converted  |-> MeanPostWp(t, conv),
              wp_if_failed     |-> MeanPostWp(t, fail),
              punt_count       |-> IF pnt = <<>> THEN NaNRat ELSE Rat(Len(pnt), 1),
              avg_post_punt_wp |-> MeanPostWp(t, pnt),
              exp_wp_go        |-> exp,
              wp_swing         |-> WpSwing(exp, MeanPostWp(t, pnt))]

\* fourth_go[fourth_go["score_differential"] > 0]
FourthGoLeading_Unfiltered(t, fourth_go) == fourth_go

FourthGoLeading(t, fourth_go) ==
    Filter(t, fourth_go, LAMBDA r : r.score_differential > 0)

BpaLeading(t, banned_punts, fourth_go) ==
    LET leading_banned    == Filter(t, banned_punts,
                                    LAMBDA r : r.score_differential > 0)
        fourth_go_leading == FourthGoLeading(t, fourth_go)
        lead_conv         == Filter(t, fourth_go_leading, IsConverted)
        lead_fail         == Filter(t, fourth_go_leading, IsFailed)
    IN  [leading_banned    |-> leading_banned,
         n_leading         |-> Len(leading_banned),
         fourth_go_leading |-> fourth_go_leading,
         avg_wp_before     |-> MeanRat(Column(t, leading_banned, "wp")),
         avg_wp_after      |-> MeanPostWp(t, leading_banned),
         avg_wp_go_leading |-> ExpWpGo(ConvRate(t, fourth_go_leading),
                                       MeanPostWp(t, lead_conv),
                                       MeanPostWp(t, lead_fail)),
         g_results         |-> [b \in Range(BPA_BUCKET_LABELS) |->
                                   BpaLeadingRow(t, fourth_go_leading,
                                                 leading_banned, b)],
         leading_pct       |-> Round1(RatMul(Rat(Len(leading_banned),
                                                 Len(banned_punts)),
                                             <<100, 1>>))]

BpaSectionG ==
    /\ prog = "banned_punt_analysis" /\ pc = "sectionG"
    /\ IF Unread(BpaSectionGReads) # <<>>
       THEN Raise(KeyError(Head(Unread(BpaSectionGReads)))) /\ bpa' = bpa
       ELSE /\ bpa' = BpaLeading(pbp, bpa.banned_punts, bpa.fourth_go) @@ bpa
            /\ IF bpa.n_banned = 0 THEN Raise(ZeroDivisionError)
               ELSE pc' = "done" /\ screen' = screen
    /\ UNCHANGED <<prog, pbp, ufl, exclude_2min, punts_cache, fgs_cache,
                   epa_cache, ui, arg, res, offscreen>>

REQUIRED_PUNT_COLS ==
    {"play_type", "yardline_100", "half_seconds_remaining", "posteam",
     "ydstogo", "score_differential", "epa", "wp", "wpa", "down"}

REQUIRED_FG_COLS == {"play_type", "kick_distance", "field_goal_result", "posteam"}

REQUIRED_EPA_COLS ==
    {"play_type", "down", "ydstogo", "epa", "fourth_down_converted",
     "yardline_100", "half_seconds_remaining"}

REQUIRED_SNEAK_COLS ==
    {"rush_attempt", "pass_attempt", "rusher_player_id", "passer_player_id",
     "posteam", "down", "ydstogo", "score_differential",
     "third_down_converted", "fourth_down_converted", "game_id", "home_team",
     "total_home_score", "total_away_score"}

\* _check_cols: missing = required - set(df.columns)
Missing(required) == required \ columns

\* _check_cols: st.error("Schema change detected in nfl_data_py ({label}).
\* Missing columns: {sorted(missing)}")
SchemaError(label, missing) ==
    Message("Schema change detected", label, missing, "")

\* except Exception as e: st.error(f"Data error: {e}")
DataError(e) == Message("Data error", "", e.columns, e.exception)

\* ttl=86400 of every st.cache_data
TTL == 86400

\* An entry stored at time `at` is served until ttl seconds have passed.
Fresh(at) == now - at < TTL

Live_Forever(fname, cache) == cache

\* The entries of the cache of function fname that have not expired.
Live(fname, cache) ==
    [k \in {c \in DOMAIN cache : Fresh(stamps[<<fname, c>>])} |-> cache[k]]

\* dashboard.py: the provider's table of the selected season is what the
\* first nfl.import_pbp_data([season]) of the process will be answered with
DashLoad(tables) ==
    /\ prog = "dashboard" /\ pc = "load"
    /\ \E raw \in tables : feed' = Put(feed, season, raw)
    /\ pc' = "compute_punts"
    /\ UNCHANGED <<prog, pbp, ufl, bpa, exclude_2min, punts_cache, fgs_cache,
                   epa_cache, ui, arg, res, season, min_punts, now, up,
                   columns, pbp_cache, tush_cache, stamps, screen>>

\* A call of an @st.cache_data function: the stored value of the key on a
\* hit, the computed value (then stored) on a miss.
Cached(cache, key, value) == IF key \in DOMAIN cache THEN cache[key] ELSE value

LoadPbpBody_Stale(s) ==
    [ok |-> TRUE, error |-> ProviderError,
     table |-> IF up THEN RegularSeason(feed[s])
               ELSE IF <<s>> \in DOMAIN pbp_cache THEN pbp_cache[<<s>>].table
               ELSE <<>>]

\* The body of load_pbp(s): the provider's table, then the REG filter
LoadPbpBody(s) ==
    IF ~up THEN [ok |-> FALSE, error |-> ProviderError, table |-> <<>>]
    ELSE IF Unread(LoadReads) # <<>>
    THEN [ok |-> FALSE, error |-> KeyError(Head(Unread(LoadReads))),
          table |-> <<>>]
    ELSE [ok |-> TRUE, error |-> ProviderError,
          table |-> RegularSeason(feed[s])]

\* load_pbp(s), itself an @st.cache_data function
LoadPbp(s) == Cached(Live("load_pbp", pbp_cache), <<s>>, LoadPbpBody(s))

\* The table a compute function works on after pbp = load_pbp(season)
Loaded(s) == LoadPbp(s).table

\* pbp[mask].copy(): a new table of the rows of frame f, each under the
\* label it has in t.
Copy(t, f) == [i \in Range(f) |-> t[i]]

\* df[column] = values, df being a local name of the function: the table
\* bound to df gets the column, aligned on the row labels, and the tables
\* bound to the other names are left as they are.
Assign_Loaded(env, df, column, values) ==
    [env EXCEPT !["pbp"] =
        [i \in DOMAIN env["pbp"] |->
            Put(env["pbp"][i], column,
                IF i \in DOMAIN values THEN values[i] ELSE NaN)]]

Assign(env, df, column, values) ==
    [env EXCEPT ![df] =
        [i \in DOMAIN env[df] |->
            Put(env[df][i], column,
                IF i \in DOMAIN values THEN values[i] ELSE NaN)]]

\* The tables bound to the local names of compute_punts when it returns:
\* banned.assign(situation=...) makes banned_scored and writes to no table.
ComputePuntsLocals(t, excl) ==
    LET punts == Filter(t, AllRows(t), LAMBDA r : r.play_type = "punt")
    IN  [pbp    |-> t,
         punts  |-> Copy(t, punts),
         banned |-> Copy(t, ComputePuntsBody(t, excl).banned)]

\* compute_fgs assigns no column.
ComputeFgsLocals(t) ==
    [pbp |-> t,
     fgs |-> Copy(t, Filter(t, AllRows(t),
                            LAMBDA r : r.play_type = "field_goal"))]

\* for df in (fourth_go, banned): df["bucket"] = pd.cut(df["ydstogo"], ...)
ComputeEpaSwingLocals(t, excl) ==
    LET bucket(df) == [i \in DOMAIN df |-> DashBucket(df[i])]
        loaded     == [pbp       |-> t,
                       banned    |-> Copy(t, EpaBanned(t, excl)),
                       fourth_go |-> Copy(t, Filter(t, AllRows(t), IsFourthGo))]
        first      == Assign(loaded, "fourth_go", "bucket",
                             bucket(loaded.fourth_go))
    IN  Assign(first, "banned", "bucket", bucket(first.banned))

\* sneaks_crit["converted"] = ..., eagles["bucket"] = ... and
\* eagles["situation"] = ...; eagles_crit is copied from sneaks_crit after
\* its column was added.
ComputeTushPushLocals(t) ==
    LET sneaks      == Sneaks(t)
        sneaks_crit == Filter(t, sneaks, IsCritical)
        eagles      == Filter(t, sneaks, LAMBDA r : r.posteam = "PHI")
        loaded      == [pbp         |-> t,
                        sneaks      |-> Copy(t, sneaks),
                        sneaks_crit |-> Copy(t, sneaks_crit),
                        eagles      |-> Copy(t, eagles)]
        crit        == Assign(loaded, "sneaks_crit", "converted",
                              [i \in DOMAIN loaded.sneaks_crit |->
                                  Converted(loaded.sneaks_crit[i])])
        bucketed    == Assign(crit, "eagles", "bucket",
                              [i \in DOMAIN crit.eagles |->
                                  DashBucket(crit.eagles[i])])
        situated    == Assign(bucketed, "eagles", "situation",
                              [i \in DOMAIN bucketed.eagles |->
                                  DashScoreSituation(
                                      bucketed.eagles[i].score_differential)])
    IN  [pbp         |-> situated.pbp,
         sneaks      |-> situated.sneaks,
         sneaks_crit |-> situated.sneaks_crit,
         eagles      |-> situated.eagles,
         eagles_crit |-> [i \in {j \in DOMAIN situated.sneaks_crit :
                                    situated.sneaks_crit[j].posteam = "PHI"}
                            |-> situated.sneaks_crit[i]]]

\* A call fname(key) of a cached compute function whose body is
\*     pbp = load_pbp(season); _check_cols(pbp, required, label); ...
\* and would return `value`.  On a hit the body does not run.  On a miss the
\* load may raise, _check_cols may stop the run, and else the value is stored;
\* a table that load_pbp returned is stored in its cache in each case.  The
\* caller's pbp is the table the body loaded, as the body left it (`after`).
Call(fname, cache, key, required, label, value, after) ==
    LET live   == Live(fname, cache)
        load   == LoadPbp(season)
        hit    == <<season>> \in DOMAIN Live("load_pbp", pbp_cache)
        tables == IF hit THEN pbp_cache ELSE Put(pbp_cache, <<season>>, load)
        loaded == IF hit THEN stamps
                  ELSE Put(stamps, <<"load_pbp", <<season>>>>, now)
    IN  IF key \in DOMAIN live
        THEN [status |-> "returned", ret |-> live[key], cache |-> cache,
              pbp |-> pbp, pbp_cache |-> pbp_cache, stamps |-> stamps]
        ELSE IF ~load.ok
        THEN [status |-> "raised", error |-> DataError(load.error),
              cache |-> cache, pbp |-> pbp, pbp_cache |-> pbp_cache,
              stamps |-> stamps]
        ELSE IF Missing(required) # {}
        THEN [status |-> "stopped",
              error |-> SchemaError(label, Missing(required)),
              cache |-> cache, pbp |-> load.table, pbp_cache |-> tables,
              stamps |-> loaded]
        ELSE [status |-> "returned", ret |-> value,
              cache |-> Put(cache, key, value), pbp |-> after,
              pbp_cache |-> tables,
              stamps |-> Put(loaded, <<fname, key>>, now)]

\* The run after the call: the next statement when the call returned; else
\* st.error and st.stop(), of _check_cols or of the except clause.
Return(out, name, next) ==
    /\ pbp' = out.pbp
    /\ pbp_cache' = out.pbp_cache
    /\ stamps' = out.stamps
    /\ IF out.status = "returned"
       THEN /\ ui' = Put(ui, name, out.ret)
            /\ pc' = next
            /\ screen' = screen
       ELSE /\ ui' = ui
            /\ pc' = "stopped"
            /\ screen' = Put(screen, "error", out.error)

ComputePunts ==
    /\ prog = "dashboard" /\ pc = "compute_punts"
    /\ LET out == Call("compute_punts", punts_cache, <<season, exclude_2min>>,
                       REQUIRED_PUNT_COLS, "punts",
                       ComputePuntsBody(Loaded(season), exclude_2min),
                       ComputePuntsLocals(Loaded(season), exclude_2min).pbp)
       IN  /\ punts_cache' = out.cache
           /\ Return(out, "punts", "compute_fgs")
    /\ UNCHANGED <<prog, ufl, bpa, exclude_2min, fgs_cache, epa_cache,
                   tush_cache, arg, res, season, min_punts, now, up, columns,
                   feed>>

ComputeFgs ==
    /\ prog = "dashboard" /\ pc = "compute_fgs"
    /\ LET out == Call("compute_fgs", fgs_cache, <<season>>,
                       REQUIRED_FG_COLS, "field goals",
                       ComputeFgsBody(Loaded(season)),
                       ComputeFgsLocals(Loaded(season)).pbp)
       IN  /\ fgs_cache' = out.cache
           /\ Return(out, "fgs", "compute_epa_swing")
    /\ UNCHANGED <<prog, ufl, bpa, exclude_2min, punts_cache, epa_cache,
                   tush_cache, arg, res, season, min_punts, now, up, columns,
                   feed>>

ComputeEpaSwing ==
    /\ prog = "dashboard" /\ pc = "compute_epa_swing"
    /\ LET out == Call("compute_epa_swing", epa_cache,
                       <<season, exclude_2min>>, REQUIRED_EPA_COLS,
                       "EPA swing",
                       ComputeEpaSwingBody(Loaded(season), exclude_2min),
                       ComputeEpaSwingLocals(Loaded(season), exclude_2min).pbp)
       IN  /\ epa_cache' = out.cache
           /\ Return(out, "epa", "compute_tush_push")
    /\ UNCHANGED <<prog, ufl, bpa, exclude_2min, punts_cache, fgs_cache,
                   tush_cache, arg, res, season, min_punts, now, up, columns,
                   feed>>

ComputeTushPush ==
    /\ prog = "dashboard" /\ pc = "compute_tush_push"
    /\ LET out == Call("compute_tush_push", tush_cache, <<season>>,
                       REQUIRED_SNEAK_COLS, "tush push",
                       ComputeTushPushBody(Loaded(season)),
                       ComputeTushPushLocals(Loaded(season)).pbp)
       IN  /\ tush_cache' = out.cache
           /\ Return(out, "tush_push", "tabs")
    /\ UNCHANGED <<prog, ufl, bpa, exclude_2min, punts_cache, fgs_cache,
                   epa_cache, arg, res, season, min_punts, now, up, columns,
                   feed>>

\* team_punt_table[team_punt_table["Total Punts"] >= min_punts]
\* if min_punts > 0 else team_punt_table
TeamPuntDisplay_Strict(team_punt_table, n) ==
    SelectSeq(team_punt_table, LAMBDA row : row["Total Punts"] > n)

TeamPuntDisplay(team_punt_table, n) ==
    IF n > 0
    THEN SelectSeq(team_punt_table, LAMBDA row : row["Total Punts"] >= n)
    ELSE team_punt_table

\* epa_display = epa_table.copy(), styled: "{:.1%}" for Conv Rate, "{:.0f}"
\* for Go Attempts and "{:+.3f}" for the five EPA columns.
EpaDisplay(epa_table) ==
    [b \in DOMAIN epa_table |->
        [l \in DOMAIN epa_table[b] |->
            IF l = "Conv Rate" THEN Percent1(epa_table[b][l])
            ELSE IF l = "Go Attempts" THEN epa_table[b][l]
            ELSE Round3(epa_table[b][l])]]

\* The four tabs: what compute_* returned, the punt table of the first tab
\* being team_punt_display.
Render ==
    /\ prog = "dashboard" /\ pc = "tabs"
    /\ screen' = Put(screen, "tabs",
                     [punts             |-> ui.punts,
                      team_punt_display |-> TeamPuntDisplay(ui.punts.team_table,
                                                            min_punts),
                      fgs               |-> ui.fgs,
                      epa               |-> ui.epa,
                      epa_display       |-> EpaDisplay(ui.epa.tbl),
                      \* c4.metric(..., f"{punt_summary['pct_banned']:.1f}%")
                      pct_banned        |-> Round1(ui.punts.summary.pct_banned),
                      tush_push         |-> ui.tush_push])
    /\ pc' = "render"
    /\ UNCHANGED <<prog, pbp, ufl, bpa, exclude_2min, punts_cache, fgs_cache,
                   epa_cache, ui, arg, res, offscreen>>

\* Between two runs: the script has rendered the tabs, or has stopped.
Idle == prog = "dashboard" /\ pc \in {"render", "stopped"}

\* Streamlit reruns the script from the top, on an empty page.
Rerun ==
    /\ Idle
    /\ ui' = <<>>
    /\ screen' = <<>>
    /\ pc' = "compute_punts"
    /\ UNCHANGED <<prog, pbp, ufl, bpa, punts_cache, fgs_cache, epa_cache,
                   arg, res, now, up, columns, pbp_cache, tush_cache, stamps>>

\* The user flips the sidebar checkbox: Streamlit reruns the script.
ToggleExclude2min ==
    /\ exclude_2min' = ~exclude_2min
    /\ Rerun
    /\ UNCHANGED <<season, min_punts, feed>>

\* The user types another number of punts into the sidebar.
SetMinPunts ==
    /\ \E n \in 0..MaxMinPunts : n # min_punts /\ min_punts' = n
    /\ Rerun
    /\ UNCHANGED <<season, exclude_2min, feed>>

Seasons == {2025, 2024, 2023}

\* The user picks another season of the selectbox; the provider's table of a
\* season is the same at every call.
SelectSeason(tables) ==
    /\ \E s \in (Seasons \cap FirstSeasons) \ {season} :
          /\ season' = s
          /\ IF s \in DOMAIN feed THEN feed' = feed
             ELSE \E raw \in tables : feed' = Put(feed, s, raw)
    /\ Rerun
    /\ UNCHANGED <<exclude_2min, min_punts>>

\* The page is reloaded with the sidebar as it is.
Reload ==
    /\ Rerun
    /\ UNCHANGED <<season, exclude_2min, min_punts, feed>>

\* Time passes between two runs.
Tick ==
    /\ Idle
    /\ now < MaxClock
    /\ now' = now + ClockStep
    /\ UNCHANGED <<prog, pc, pbp, ufl, bpa, exclude_2min, punts_cache,
                   fgs_cache, epa_cache, ui, arg, res, season, min_punts, up,
                   columns, feed, pbp_cache, tush_cache, stamps, screen>>

\* The provider goes down, or comes back.
Outage ==
    /\ Idle
    /\ up' = ~up
    /\ UNCHANGED <<prog, pc, pbp, ufl, bpa, exclude_2min, punts_cache,
                   fgs_cache, epa_cache, ui, arg, res, season, min_punts, now,
                   columns, feed, pbp_cache, tush_cache, stamps, screen>>

Steps ==
    \/ UflSection1
    \/ UflSection2
    \/ UflSection2b
    \/ BpaBanned
    \/ BpaSectionA
    \/ BpaSectionB
    \/ BpaSectionD
    \/ BpaSectionE
    \/ BpaSectionF
    \/ BpaSectionG
    \/ ComputePunts
    \/ ComputeFgs
    \/ ComputeEpaSwing
    \/ ComputeTushPush
    \/ Render
    \/ ToggleExclude2min

Load(tables) ==
    \/ UflLoad(tables)
    \/ BpaLoad(tables)
    \/ DashLoad(tables)

Next == Load(PuntTables) \/ Steps

\* The programs over tables of punts
Spec == Init /\ [][Next]_vars

NextFg == Load(FgTables) \/ Steps

\* The programs over tables of field goals
SpecFg == Init /\ [][NextFg]_vars

NextEpa == Load(EpaTables) \/ Steps

\* The programs over tables of fourth-down plays and punts
SpecEpa == Init /\ [][NextEpa]_vars

NextSit == Load(SitTables) \/ Steps

\* The programs over tables of punts in the four score situations
SpecSit == Init /\ [][NextSit]_vars

\* A fourth-down play of PHI at the opponent's 45 with its win probability
WpPlay(pt, sd, ytg, fdc, wp, wpa) ==
    [Play("REG", pt, "PHI", 45, 900, Val(4), ytg, sd, <<0, 1>>, fdc, NaN, "NaN")
        EXCEPT !.wp = wp, !.wpa = wpa]

\* Go-for-it plays, converted and failed, and banned punts, of a team that
\* leads by 3 and of a team that trails by 3
LeadScenario ==
    <<WpPlay("run", 3, 1, 1, <<7, 10>>, <<1, 10>>),
      WpPlay("pass", 3, 1, 0, <<7, 10>>, <<-1, 5>>),
      WpPlay("run", -3, 1, 1, <<3, 10>>, <<1, 10>>),
      WpPlay("run", -3, 1, 0, <<3, 10>>, <<-1, 5>>),
      WpPlay("punt", 3, 1, 0, <<7, 10>>, <<-1, 10>>),
      WpPlay("punt", -3, 1, 0, <<3, 10>>, <<-1, 10>>)>>

LeadRows ==
    Range(LeadScenario) \cup {WpPlay("run", 7, 4, 1, <<4, 5>>, <<1, 20>>)}

LeadTables == Tables(LeadRows, MaxLeadPlays) \cup {LeadScenario}

NextLead == Load(LeadTables) \/ Steps

\* The programs over tables of plays of leading and of trailing teams
SpecLead == Init /\ [][NextLead]_vars

\* A banned punt, a punt from the own half and a long field goal made
SchemaRows ==
    {PuntRow(121, 4, <<0, 1>>),
     Play("REG", "punt", "DAL", 60, 900, Val(4), 4, 3, <<0, 1>>, 0, NaN, "NaN"),
     Play("REG", "field_goal", "PHI", 42, 900, Val(4), 5, 0, <<3, 1>>, 0,
          Val(60), "made")}

SchemaTables ==
    {<<r>> \o <<PuntRow(121, 4, <<0, 1>>)>> : r \in SchemaRows}

\* the columns that a change of the provider's schema may take away
Droppable ==
    {"season_type", "kick_distance", "epa", "score_differential",
     "rusher_player_id", "qb_sneak"}

\* As Init, with a provider whose table lacks some of the columns.
InitSchema ==
    /\ prog \in Programs
    /\ pc = "load"
    /\ pbp = <<>>
    /\ ufl = <<>>
    /\ bpa = <<>>
    /\ exclude_2min = TRUE
    /\ punts_cache = <<>>
    /\ fgs_cache = <<>>
    /\ epa_cache = <<>>
    /\ ui = <<>>
    /\ arg = <<>>
    /\ res = <<>>
    /\ season = DefaultSeason
    /\ min_punts = 0
    /\ now = 0
    /\ up = TRUE
    /\ columns \in {AllColumns \ dropped : dropped \in SUBSET Droppable}
    /\ feed = <<>>
    /\ pbp_cache = <<>>
    /\ tush_cache = <<>>
    /\ stamps = <<>>
    /\ screen = <<>>

NextSchema == Load(SchemaTables) \/ Steps

\* The programs over a table that lacks columns
SpecSchema == InitSchema /\ [][NextSchema]_vars

\* Two punts of PHI, one of them banned, and one punt of DAL; a banned punt
\* of DAL and a long field goal made
SessionTables ==
    {<<PuntRow(121, 4, <<0, 1>>), PuntRow(60, 1, <<-1, 2>>),
       Play("REG", "punt", "DAL", 60, 900, Val(4), 4, 3, <<0, 1>>, 0, NaN, "NaN")>>,
     <<Play("REG", "punt", "DAL", 45, 900, Val(4), 4, 3, <<0, 1>>, 0, NaN, "NaN"),
       Play("REG", "field_goal", "PHI", 42, 900, Val(4), 5, 0, <<3, 1>>, 0,
            Val(60), "made")>>}

NextDisplay == Load(SessionTables) \/ Steps \/ SetMinPunts

\* The programs, and a dashboard session in which the user changes the
\* minimum number of punts of the team table
SpecDisplay == Init /\ [][NextDisplay]_vars

NextSession ==
    \/ Load(SessionTables)
    \/ Steps
    \/ SelectSeason(SessionTables)
    \/ Reload
    \/ Tick
    \/ Outage

\* The programs, and a dashboard session in which the user changes the
\* season, time passes and the provider fails
SpecSession == Init /\ [][NextSession]_vars

----------------------------------------------------------------------------
(* The bucketing functions applied to two plays *)

YdsRows == {PuntRow(121, y, <<0, 1>>) : y \in 0..MaxYdstogo}

InitCut ==
    /\ prog = "bucketing"
    /\ pc = "cut"
    /\ arg \in [1..2 -> YdsRows]
    /\ res = <<>>
    /\ pbp = <<>>
    /\ ufl = <<>>
    /\ bpa = <<>>
    /\ exclude_2min = TRUE
    /\ punts_cache = <<>>
    /\ fgs_cache = <<>>
    /\ epa_cache = <<>>
    /\ ui = <<>>
    /\ SessionInit

\* dashboard.py: df["bucket"] = pd.cut(df["ydstogo"], ...)
CutDashboard ==
    /\ prog = "bucketing" /\ "dashboard" \notin DOMAIN res
    /\ res' = Put(res, "dashboard", [k \in DOMAIN arg |-> DashBucket(arg[k])])
    /\ UNCHANGED <<prog, pc, pbp, ufl, bpa, exclude_2min, punts_cache,
                   fgs_cache, epa_cache, ui, arg, session>>

\* banned_punt_analysis.py: the pd.cut of Sections A, D, E and G
CutScript ==
    /\ prog = "bucketing" /\ "script" \notin DOMAIN res
    /\ res' = Put(res, "script", [k \in DOMAIN arg |-> BpaBucket(arg[k])])
    /\ UNCHANGED <<prog, pc, pbp, ufl, bpa, exclude_2min, punts_cache,
                   fgs_cache, epa_cache, ui, arg, session>>

\* banned_punt_analysis.py: the brackets of Section B
BracketScript ==
    /\ prog = "bucketing" /\ "bracket" \notin DOMAIN res
    /\ res' = Put(res, "bracket", [k \in DOMAIN arg |-> Bracket(arg[k])])
    /\ UNCHANGED <<prog, pc, pbp, ufl, bpa, exclude_2min, punts_cache,
                   fgs_cache, epa_cache, ui, arg, session>>

NextCut == CutDashboard \/ CutScript \/ BracketScript

SpecCut == InitCut /\ [][NextCut]_vars

\* A quarterback sneak of the qb_sneak column
SneakPlay(team, dn, ytg, sd, conv) ==
    [Play("REG", "run", team, 45, 900, Val(dn), ytg, sd, <<1, 2>>,
          IF dn = 4 THEN conv ELSE 0, NaN, "NaN")
        EXCEPT !.qb_sneak = 1, !.rush_attempt = 1,
               !.third_down_converted = IF dn = 3 THEN conv ELSE 0]

\* A season with a converted sneak of PHI on fourth down and a banned punt,
\* and a season with a failed sneak of DAL on third down and a long kick
FrameTables ==
    {<<SneakPlay("PHI", 4, 1, 3, 1), PuntRow(121, 4, <<0, 1>>)>>,
     <<SneakPlay("DAL", 3, 2, -3, 0), PuntRow(60, 1, <<-1, 2>>),
       Play("REG", "field_goal", "PHI", 42, 900, Val(4), 5, 0, <<3, 1>>, 0,
            Val(60), "made")>>}

NextFrames ==
    \/ Load(FrameTables)
    \/ Steps
    \/ SelectSeason(FrameTables)
    \/ Reload

\* The programs, and a dashboard session in which the compute functions are
\* called again with other seasons and with the other setting of the checkbox
SpecFrames == Init /\ [][NextFrames]_vars

\* PHI is at home in game 1 and DAL in game 2.
HomeOf(game) == IF game = 1 THEN "PHI" ELSE "DAL"

\* A play of a game with the running score after it: a made field goal of
\* 60 yards, or a run
ScorePlay(game, team, kick, home_score, away_score) ==
    [Play("REG", IF kick THEN "field_goal" ELSE "run", team, 42, 900, Val(4),
          5, 0, <<0, 1>>, 0, IF kick THEN Val(60) ELSE NaN,
          IF kick THEN "made" ELSE "NaN")
        EXCEPT !.game_id = game, !.home_team = HomeOf(game),
               !.total_home_score = home_score,
               !.total_away_score = away_score]

RunningScores == {<<3, 0>>, <<3, 4>>, <<4, 3>>}

\* ... and a banned punt
ScoreRows ==
    {ScorePlay(game, team, kick, score[1], score[2]) :
        game \in {1, 2}, team \in {"PHI", "DAL"}, kick \in BOOLEAN,
        score \in RunningScores}
    \cup {PuntRow(121, 4, <<0, 1>>)}

\* PHI kicks a long field goal at home and loses 3-4; DAL kicks one at home
\* and wins 7-3 after PHI, the visitor, has kicked one as well.
ScoreScenario ==
    <<ScorePlay(1, "PHI", TRUE, 3, 0),
      ScorePlay(1, "DAL", FALSE, 3, 4),
      ScorePlay(2, "PHI", TRUE, 0, 3),
      ScorePlay(2, "DAL", TRUE, 4, 3),
      ScorePlay(2, "DAL", FALSE, 7, 3)>>

ScoreTables == Tables(ScoreRows, MaxScorePlays) \cup {ScoreScenario}

NextScore == Load(ScoreTables) \/ Steps

\* The programs over tables of plays with running scores
SpecScore == Init /\ [][NextScore]_vars

\* Punts of PHI and of DAL, on either side of midfield and of the two-minute
\* mark
TeamRows ==
    {Play("REG", "punt", team, yl, hsr, Val(4), 4, 0, <<0, 1>>, 0, NaN, "NaN") :
        team \in {"PHI", "DAL"}, yl \in {45, 50}, hsr \in {120, 121}}

TeamTables == Tables(TeamRows, MaxTeamPlays)

NextTeams == Load(TeamTables) \/ Steps

\* The programs over tables of punts of two teams
SpecTeams == Init /\ [][NextTeams]_vars

\* A rush of PHI on third down by the player rusher, not flagged as a sneak
RushPlay(ytg, rusher) ==
    [Play("REG", "run", "PHI", 45, 900, Val(3), ytg, 0, <<1, 2>>, 0, NaN, "NaN")
        EXCEPT !.rush_attempt = 1, !.rusher_player_id = rusher,
               !.third_down_converted = 1]

\* A pass of PHI thrown by the player passer
PassPlay(passer) ==
    [Play("REG", "pass", "PHI", 45, 900, Val(1), 10, 0, <<0, 1>>, 0, NaN, "NaN")
        EXCEPT !.pass_attempt = 1, !.passer_player_id = passer]

SneakRows ==
    {SneakPlay("PHI", dn, 1, 0, conv) : dn \in {2, 3, 4}, conv \in {0, 1}}
    \cup {SneakPlay("DAL", 4, 1, 0, 1)}
    \cup {RushPlay(ytg, rusher) : ytg \in {1, 2}, rusher \in {Val(7), Val(9)}}
    \cup {PassPlay(passer) : passer \in {Val(7), Val(9), NaN}}
    \cup {ScorePlay(1, "DAL", FALSE, 4, 3), ScorePlay(1, "DAL", FALSE, 3, 4)}
    \cup {PuntRow(121, 4, <<0, 1>>)}

\* No play is flagged: player 7 threw two of the three passes of PHI and
\* player 9 one, and each of them ran once with a yard to go.
PasserScenario ==
    <<PassPlay(Val(9)), PassPlay(Val(7)), PassPlay(Val(7)),
      RushPlay(1, Val(7)), RushPlay(1, Val(9)), RushPlay(2, Val(7))>>

\* PHI converted a sneak in game 1, which it won 4-3 at home, and in game 2,
\* which it lost 3-7 as the visitor (sneaks are plays of game 1 unless moved).
GamesScenario ==
    <<SneakPlay("PHI", 3, 1, 0, 1),
      ScorePlay(1, "DAL", FALSE, 4, 3),
      [SneakPlay("PHI", 4, 1, 0, 1)
          EXCEPT !.game_id = 2, !.home_team = "DAL"],
      ScorePlay(2, "DAL", FALSE, 7, 3),
      SneakPlay("PHI", 2, 1, 0, 0)>>

SneakTables ==
    Tables(SneakRows, MaxSneakPlays) \cup {PasserScenario, GamesScenario}

NextSneaks == Load(SneakTables) \/ Steps

\* The programs over tables of sneaks, rushes and passes
SpecSneaks == Init /\ [][NextSneaks]_vars

----------------------------------------------------------------------------
(* score_situation applied to a score differential *)

InitSituation ==
    /\ prog = "situation"
    /\ pc = "apply"
    /\ arg \in [diff : (0 - MaxDiff)..MaxDiff]
    /\ res = <<>>
    /\ pbp = <<>>
    /\ ufl = <<>>
    /\ bpa = <<>>
    /\ exclude_2min = TRUE
    /\ punts_cache = <<>>
    /\ fgs_cache = <<>>
    /\ epa_cache = <<>>
    /\ ui = <<>>
    /\ SessionInit

\* dashboard.py: banned["score_differential"].apply(score_situation)
SituationDashboard ==
    /\ prog = "situation" /\ "dashboard" \notin DOMAIN res
    /\ res' = Put(res, "dashboard", DashScoreSituation(arg.diff))
    /\ UNCHANGED <<prog, pc, pbp, ufl, bpa, exclude_2min, punts_cache,
                   fgs_cache, epa_cache, ui, arg, session>>

\* banned_punt_analysis.py: banned_punts["score_differential"].apply(score_situation)
SituationScript ==
    /\ prog = "situation" /\ "script" \notin DOMAIN res
    /\ res' = Put(res, "script", BpaScoreSituation(arg.diff))
    /\ UNCHANGED <<prog, pc, pbp, ufl, bpa, exclude_2min, punts_cache,
                   fgs_cache, epa_cache, ui, arg, session>>

NextSituation == SituationDashboard \/ SituationScript

SpecSituation == InitSituation /\ [][NextSituation]_vars

----------------------------------------------------------------------------
(* The expected-value formula applied to two conversion rates *)

\* conversions / attempts of a bucket with at most MaxAttempts attempts
Rates == UNION {{Rat(k, n) : k \in 0..n} : n \in 1..MaxAttempts}

Values == {<<-3, 2>>, <<-4, 5>>, <<0, 1>>, <<6, 5>>}

InitModel ==
    /\ prog = "model"
    /\ pc = "evaluate"
    /\ arg \in [p1 : Rates, p2 : Rates, v_success : Values, v_fail : Values,
                v_actual : Values]
    /\ res = <<>>
    /\ pbp = <<>>
    /\ ufl = <<>>
    /\ bpa = <<>>
    /\ exclude_2min = TRUE
    /\ punts_cache = <<>>
    /\ fgs_cache = <<>>
    /\ epa_cache = <<>>
    /\ ui = <<>>
    /\ SessionInit

\* exp_epa_go and epa_swing of two buckets that differ in conv_rate only
Evaluate ==
    /\ prog = "model" /\ pc = "evaluate"
    /\ LET e1 == ExpEpaGo(arg.p1, arg.v_success, arg.v_fail)
           e2 == ExpEpaGo(arg.p2, arg.v_success, arg.v_fail)
       IN  res' = [exp1 |-> e1, exp2 |-> e2,
                   swing1 |-> EpaSwing(e1, arg.v_actual),
                   swing2 |-> EpaSwing(e2, arg.v_actual)]
    /\ pc' = "done"
    /\ UNCHANGED <<prog, pbp, ufl, bpa, exclude_2min, punts_cache, fgs_cache,
                   epa_cache, ui, arg, session>>

NextModel == Evaluate

SpecModel == InitModel /\ [][NextModel]_vars

----------------------------------------------------------------------------
(* Properties: the banned-punt predicate *)

Rows == 1..Len(pbp)

PuntIdx == {i \in Rows : pbp[i].play_type = "punt"}

NotApplicable(i) == pbp[i].yardline_100 >= 50

ExactlyOne(a, b, c) ==
    \/ a /\ ~b /\ ~c
    \/ ~a /\ b /\ ~c
    \/ ~a /\ ~b /\ c

UflPuntsDone ==
    prog = "ufl_rule_analysis" /\ pc \in {"section2", "section2b", "done"}

BpaBannedDone == prog = "banned_punt_analysis" /\ pc \notin {"load", "banned"}

KeyOn == <<DefaultSeason, TRUE>>

KeyOff == <<DefaultSeason, FALSE>>

\* C1: with the exemption applied every punt is in exactly one of the
\* classes not-applicable (yardline_100 >= 50), exempt, banned, so that
\* opp_territory = exempt + banned and total_punts = not-applicable + exempt
\* + banned, in ufl_rule_analysis.py and in dashboard.compute_punts.
C1_PuntPartition ==
    /\ UflPuntsDone =>
          /\ \A i \in PuntIdx :
                ExactlyOne(NotApplicable(i), i \in Range(ufl.punts_exempt),
                           i \in Range(ufl.punts_illegal))
          /\ ufl.n_opp_territory = ufl.n_exempt_punts + ufl.n_illegal_punts
          /\ ufl.total_punts =
                Cardinality({i \in PuntIdx : NotApplicable(i)})
                + ufl.n_exempt_punts + ufl.n_illegal_punts
    /\ KeyOn \in DOMAIN punts_cache =>
          LET p == punts_cache[KeyOn]
          IN  /\ \A i \in PuntIdx :
                    ExactlyOne(NotApplicable(i), i \in Range(p.punts_exempt),
                               i \in Range(p.banned))
              /\ p.summary.opp_territory = p.summary.exempt + p.summary.banned
              /\ p.summary.total_punts =
                    Cardinality({i \in PuntIdx : NotApplicable(i)})
                    + p.summary.exempt + p.summary.banned

C1_Witness ==
    /\ KeyOn \in DOMAIN punts_cache
    /\ punts_cache[KeyOn].summary.exempt = 1
    /\ punts_cache[KeyOn].summary.banned = 1
    /\ punts_cache[KeyOn].summary.total_punts = 2

ClaimCandidate(i) == pbp[i].play_type = "punt" /\ pbp[i].yardline_100 < 50

ClaimBanned(i) == ClaimCandidate(i) /\ pbp[i].half_seconds_remaining > 120

ClaimExempt(i) == ClaimCandidate(i) /\ pbp[i].half_seconds_remaining <= 120

\* C2: with the exemption applied a play is banned iff it is a punt with
\* yardline_100 < 50 and half_seconds_remaining > 120, exempt iff it is a
\* punt with yardline_100 < 50 and half_seconds_remaining <= 120, and a
\* candidate iff it is a punt with yardline_100 < 50, in all three programs.
C2_BannedIff ==
    /\ UflPuntsDone =>
          \A i \in Rows :
             /\ i \in Range(ufl.punts_in_opp_territory) <=> ClaimCandidate(i)
             /\ i \in Range(ufl.punts_illegal) <=> ClaimBanned(i)
             /\ i \in Range(ufl.punts_exempt) <=> ClaimExempt(i)
    /\ BpaBannedDone =>
          \A i \in Rows :
             /\ i \in Range(bpa.punts_in_opp) <=> ClaimCandidate(i)
             /\ i \in Range(bpa.banned_punts) <=> ClaimBanned(i)
    /\ KeyOn \in DOMAIN punts_cache =>
          \A i \in Rows :
             /\ i \in Range(punts_cache[KeyOn].punts_in_opp) <=> ClaimCandidate(i)
             /\ i \in Range(punts_cache[KeyOn].banned) <=> ClaimBanned(i)
             /\ i \in Range(punts_cache[KeyOn].punts_exempt) <=> ClaimExempt(i)

C2_Witness ==
    /\ KeyOn \in DOMAIN punts_cache
    /\ \E i, j \in PuntIdx :
          /\ pbp[i].yardline_100 = 50 /\ pbp[i].half_seconds_remaining = 121
          /\ i \notin Range(punts_cache[KeyOn].punts_in_opp)
          /\ pbp[j].yardline_100 = 49 /\ pbp[j].half_seconds_remaining = 121
          /\ j \in Range(punts_cache[KeyOn].banned)

Punt45At90 ==
    {i \in PuntIdx : pbp[i].yardline_100 = 45 /\ pbp[i].half_seconds_remaining = 90}

\* C3 as stated: with the exemption applied a punt with yardline_100 = 45
\* and half_seconds_remaining = 90 is classified banned.
C3_Original ==
    /\ UflPuntsDone => \A i \in Punt45At90 : i \in Range(ufl.punts_illegal)
    /\ KeyOn \in DOMAIN punts_cache =>
          \A i \in Punt45At90 : i \in Range(punts_cache[KeyOn].banned)

\* C3 amended: with the exemption applied a punt with yardline_100 = 45 and
\* half_seconds_remaining = 90 is in opponent territory and inside the
\* two-minute window, and is classified exempt, not banned.
C3_Punt45At90Exempt ==
    /\ UflPuntsDone =>
          \A i \in Punt45At90 :
             /\ i \in Range(ufl.punts_in_opp_territory)
             /\ i \in Range(ufl.punts_exempt)
             /\ i \notin Range(ufl.punts_illegal)
    /\ KeyOn \in DOMAIN punts_cache =>
          \A i \in Punt45At90 :
             /\ i \in Range(punts_cache[KeyOn].punts_in_opp)
             /\ i \in Range(punts_cache[KeyOn].punts_exempt)
             /\ i \notin Range(punts_cache[KeyOn].banned)

C3_Witness ==
    /\ KeyOn \in DOMAIN punts_cache
    /\ Punt45At90 # {}
    /\ punts_cache[KeyOn].summary.exempt >= 1

\* C4: with exclude_2min = False compute_punts and compute_epa_swing take
\* every punt with yardline_100 < 50 as banned whatever its clock, exempt = 0
\* and banned = opp_territory; and for the same data
\* banned(False) = banned(True) + exempt(True).
C4_ToggleOff ==
    /\ KeyOff \in DOMAIN punts_cache =>
          LET p == punts_cache[KeyOff]
          IN  /\ \A i \in Rows : i \in Range(p.banned) <=> ClaimCandidate(i)
              /\ p.summary.exempt = 0
              /\ p.summary.banned = p.summary.opp_territory
    /\ KeyOff \in DOMAIN epa_cache =>
          \A i \in Rows : i \in Range(epa_cache[KeyOff].banned) <=> ClaimCandidate(i)
    /\ KeyOn \in DOMAIN epa_cache =>
          \A i \in Rows : i \in Range(epa_cache[KeyOn].banned) <=> ClaimBanned(i)
    /\ (KeyOff \in DOMAIN punts_cache /\ KeyOn \in DOMAIN punts_cache) =>
          punts_cache[KeyOff].summary.banned =
             punts_cache[KeyOn].summary.banned + punts_cache[KeyOn].summary.exempt

C4_Witness ==
    /\ KeyOff \in DOMAIN punts_cache /\ KeyOn \in DOMAIN punts_cache
    /\ KeyOff \in DOMAIN epa_cache
    /\ \E i \in PuntIdx :
          /\ pbp[i].yardline_100 = 45 /\ pbp[i].half_seconds_remaining = 100
          /\ i \in Range(punts_cache[KeyOff].banned)
          /\ i \in Range(epa_cache[KeyOff].banned)
          /\ i \notin Range(punts_cache[KeyOn].banned)

----------------------------------------------------------------------------
(* Properties: the bucketing scheme *)

ClaimLabel(y) ==
    IF y <= 1 THEN "0-1"
    ELSE IF y <= 3 THEN "2-3"
    ELSE IF y <= 5 THEN "4-5"
    ELSE IF y <= 10 THEN "6-10" ELSE "11+"

\* y lies in bin i of bins: (bins[i], bins[i+1]], the first bin closed below
InBin(bins, i, y) ==
    /\ EdgeLt(bins[i], y) \/ (i = 1 /\ y = bins[1][1])
    /\ bins[i + 1] = Inf \/ y <= bins[i + 1][1]

\* C5: the bucketing function gives every integer ydstogo >= 0 exactly one
\* label: 0..1 -> "0-1", 2..3 -> "2-3", 4..5 -> "4-5", 6..10 -> "6-10",
\* >= 11 -> "11+"; the five bins have no gap and no overlap.
C5_BucketTotal ==
    \A k \in DOMAIN arg :
       LET y == arg[k].ydstogo
       IN  /\ "dashboard" \in DOMAIN res =>
                /\ res.dashboard[k] = ClaimLabel(y)
                /\ Cardinality({i \in 1..5 : InBin(BUCKET_BINS, i, y)}) = 1
           /\ "script" \in DOMAIN res =>
                /\ res.script[k] = ClaimLabel(y)
                /\ Cardinality({i \in 1..5 : InBin(BPA_BUCKET_BINS, i, y)}) = 1

C5_Witness ==
    /\ "dashboard" \in DOMAIN res /\ "script" \in DOMAIN res
    /\ arg[1].ydstogo = 0 /\ res.dashboard[1] = "0-1"
    /\ arg[2].ydstogo = 10 /\ res.script[2] = "6-10"

AllGrouped == {"dashboard", "script", "bracket"} \subseteq DOMAIN res

\* C6 as stated: every grouping by yards-to-go, Section B's brackets
\* included, groups two plays together exactly when they share a bucket.
C6_Original ==
    AllGrouped =>
       /\ res.dashboard[1] = res.dashboard[2] <=> res.script[1] = res.script[2]
       /\ res.dashboard[1] = res.dashboard[2] <=> res.bracket[1] = res.bracket[2]

\* C6 amended: the groupings by bucket label (compute_epa_swing and the
\* pd.cut of banned_punt_analysis.py) give every play the same label, so
\* they group alike; Section B's brackets are the separate split
\* ydstogo <= 2, 3..5, >= 6.
C6_BucketGroupingsAgree ==
    /\ {"dashboard", "script"} \subseteq DOMAIN res =>
          /\ \A k \in DOMAIN arg : res.dashboard[k] = res.script[k]
          /\ res.dashboard[1] = res.dashboard[2] <=> res.script[1] = res.script[2]
    /\ "bracket" \in DOMAIN res =>
          \A k \in DOMAIN arg :
             res.bracket[k] =
                IF arg[k].ydstogo <= 2 THEN "short"
                ELSE IF arg[k].ydstogo <= 5 THEN "medium" ELSE "long"

C6_Witness ==
    /\ AllGrouped
    /\ arg[1].ydstogo = 2 /\ arg[2].ydstogo = 3
    /\ res.dashboard[1] = res.dashboard[2]
    /\ res.script[1] = res.script[2]
    /\ res.bracket[1] # res.bracket[2]

----------------------------------------------------------------------------
(* Properties: the expected-value model *)

ClaimGo(b) ==
    {i \in Rows : /\ pbp[i].down = <<4>>
                  /\ pbp[i].play_type \in {"run", "pass"}
                  /\ ClaimLabel(pbp[i].ydstogo) = b}

ClaimConv(b) == {i \in ClaimGo(b) : pbp[i].fourth_down_converted = 1}

ClaimFail(b) == {i \in ClaimGo(b) : pbp[i].fourth_down_converted = 0}

ClaimPunts(excl, b) ==
    {i \in Rows : /\ ClaimCandidate(i)
                  /\ excl => pbp[i].half_seconds_remaining > 120
                  /\ ClaimLabel(pbp[i].ydstogo) = b}

RECURSIVE SetSumEpa(_)
SetSumEpa(S) ==
    IF S = {} THEN <<0, 1>>
    ELSE LET i == CHOOSE j \in S : TRUE
         IN  RatAdd(pbp[i].epa, SetSumEpa(S \ {i}))

\* the unweighted mean of epa over the plays S
ClaimMean(S) == RatMul(SetSumEpa(S), Rat(1, Cardinality(S)))

\* p = conversions / attempts
ClaimP(b) == Rat(Cardinality(ClaimConv(b)), Cardinality(ClaimGo(b)))

\* p * v_success + (1 - p) * v_fail
ClaimExpGo(b) ==
    RatAdd(RatMul(ClaimP(b), ClaimMean(ClaimConv(b))),
           RatMul(RatSub(<<1, 1>>, ClaimP(b)), ClaimMean(ClaimFail(b))))

ClaimSwing(excl, b) == RatSub(ClaimExpGo(b), ClaimMean(ClaimPunts(excl, b)))

Buckets == {"0-1", "2-3", "4-5", "6-10", "11+"}

\* C7: in the table compute_epa_swing returns, the column labelled
\* "Exp EPA (Go)" holds p * mean(EPA | converted) + (1 - p) * mean(EPA |
\* failed), "Avg Punt EPA" holds the mean EPA of the bucket's banned punts
\* and "EPA Swing" = "Exp EPA (Go)" - "Avg Punt EPA" (stated for the buckets
\* with a converted attempt, a failed attempt and a banned punt).
C7_EpaColumnLabels ==
    \A key \in DOMAIN epa_cache : \A b \in Buckets :
       (ClaimConv(b) # {} /\ ClaimFail(b) # {} /\ ClaimPunts(key[2], b) # {}) =>
          LET row == epa_cache[key].tbl[b]
          IN  /\ row["Exp EPA (Go)"] = ClaimExpGo(b)
              /\ row["Avg Punt EPA"] = ClaimMean(ClaimPunts(key[2], b))
              /\ row["EPA Swing"] = RatSub(row["Exp EPA (Go)"], row["Avg Punt EPA"])

\* C8: per bucket the conversion rate is conversions / attempts over the
\* plays with down = 4 and play_type in {run, pass}, the expected value of
\* going for it is p * v_success + (1 - p) * v_fail with unweighted means,
\* and swing = E[go] - v_actual; for attempts = 10, conversions = 6,
\* v_success = 1.2, v_fail = -1.5, v_actual = -0.8: E[go] = 0.12 and
\* swing = 0.92.  (banned_punt_analysis.py results and the frame of
\* compute_epa_swing before its columns are renamed.)
C8_ExpectedValue ==
    /\ \A key \in DOMAIN epa_cache : \A b \in Buckets :
          LET row == epa_cache[key].frame[b]
          IN  /\ row.conv_rate = ClaimP(b)
              /\ ClaimGo(b) # {} => row.go_attempts = <<Cardinality(ClaimGo(b)), 1>>
              /\ row.epa_if_converted = ClaimMean(ClaimConv(b))
              /\ row.epa_if_failed = ClaimMean(ClaimFail(b))
              /\ row.exp_epa_go = ClaimExpGo(b)
              /\ row.epa_swing = ClaimSwing(key[2], b)
    /\ (prog = "banned_punt_analysis" /\ pc = "done") =>
          \A b \in Buckets :
             LET row == bpa.results[b]
             IN  /\ row.conv_rate = ClaimP(b)
                 /\ ClaimGo(b) # {} =>
                       /\ row.go_attempts = <<Cardinality(ClaimGo(b)), 1>>
                       /\ row.conversions = <<Cardinality(ClaimConv(b)), 1>>
                 /\ row.epa_if_converted = ClaimMean(ClaimConv(b))
                 /\ row.epa_if_failed = ClaimMean(ClaimFail(b))
                 /\ row.avg_punt_epa = ClaimMean(ClaimPunts(TRUE, b))
                 /\ row.exp_epa_go = ClaimExpGo(b)
                 /\ row.epa_swing = ClaimSwing(TRUE, b)
    /\ (pbp = ScenarioTable /\ prog = "banned_punt_analysis" /\ pc = "done") =>
          /\ bpa.results["0-1"].exp_epa_go = <<3, 25>>
          /\ bpa.results["0-1"].epa_swing = <<23, 25>>
    /\ (pbp = ScenarioTable /\ KeyOn \in DOMAIN epa_cache) =>
          /\ epa_cache[KeyOn].frame["0-1"].exp_epa_go = <<3, 25>>
          /\ epa_cache[KeyOn].frame["0-1"].epa_swing = <<23, 25>>

C8_Witness ==
    /\ prog = "banned_punt_analysis" /\ pc = "done"
    /\ pbp = ScenarioTable
    /\ bpa.results["0-1"].go_attempts = <<10, 1>>
    /\ bpa.results["0-1"].conversions = <<6, 1>>
    /\ bpa.results["0-1"].conv_rate = <<3, 5>>
    /\ bpa.results["0-1"].epa_if_converted = <<6, 5>>
    /\ bpa.results["0-1"].epa_if_failed = <<-3, 2>>
    /\ bpa.results["0-1"].avg_punt_epa = <<-4, 5>>
    /\ bpa.results["0-1"].epa_swing = <<23, 25>>

\* C9: for fixed v_actual, v_success > v_fail and conversion rates p1 < p2
\* in [0, 1], E[go](p2) > E[go](p1) and swing(p2) > swing(p1).
C9_SwingIncreasesWithP ==
    (pc = "done" /\ RatLt(arg.v_fail, arg.v_success) /\ RatLt(arg.p1, arg.p2)) =>
       /\ RatLt(res.exp1, res.exp2)
       /\ RatLt(res.swing1, res.swing2)

C9_Witness ==
    /\ pc = "done"
    /\ arg.p1 = <<2, 5>> /\ arg.p2 = <<3, 5>>
    /\ arg.v_success = <<6, 5>> /\ arg.v_fail = <<-3, 2>>
    /\ arg.v_actual = <<-4, 5>>
    /\ res.exp2 = <<3, 25>> /\ res.swing2 = <<23, 25>>
    /\ RatLt(res.swing1, res.swing2)

----------------------------------------------------------------------------
(* Properties: the long-field-goal bonus *)

ClaimQualifies(i) ==
    /\ pbp[i].play_type = "field_goal"
    /\ pbp[i].kick_distance \in {<<d>> : d \in 60..70}

ClaimBonus == Cardinality({i \in Rows : ClaimQualifies(i) /\ pbp[i].field_goal_result = "made"})

RECURSIVE SumColumn(_, _)
SumColumn(tbl, col) ==
    IF DOMAIN tbl = {} THEN 0
    ELSE LET k == CHOOSE j \in DOMAIN tbl : TRUE
         IN  tbl[k][col] + SumColumn([j \in DOMAIN tbl \ {k} |-> tbl[j]], col)

\* C10: a play qualifies for the bonus iff it is a field goal with
\* kick_distance >= 60; extra_points is the number of qualifying plays with
\* field_goal_result = "made"; the per-team extra points sum to it.
C10_LongFgBonus ==
    /\ (prog = "ufl_rule_analysis" /\ pc = "done") =>
          /\ \A i \in Rows : i \in Range(ufl.long_fgs) <=> ClaimQualifies(i)
          /\ ufl.extra_points = ClaimBonus
          /\ SumColumn(ufl.team_fgs, "extra_pts") = ufl.extra_points
    /\ <<DefaultSeason>> \in DOMAIN fgs_cache =>
          LET f == fgs_cache[<<DefaultSeason>>]
          IN  /\ \A i \in Rows : i \in Range(f.long_fgs) <=> ClaimQualifies(i)
              /\ f.summary.extra_points = ClaimBonus
              /\ SumColumn(f.team_fgs, "Extra Pts") = f.summary.extra_points

C10_Witness ==
    /\ <<DefaultSeason>> \in DOMAIN fgs_cache
    /\ fgs_cache[<<DefaultSeason>>].summary.extra_points = 2
    /\ DOMAIN fgs_cache[<<DefaultSeason>>].team_fgs = {"PHI", "DAL"}
    /\ \E i, j \in Rows : pbp[i].kick_distance = <<60>> /\ pbp[j].kick_distance = <<61>>

----------------------------------------------------------------------------
(* Properties: empty populations *)

NoPunts == PuntIdx = {}

NoLongFgs == \A i \in Rows : ~ClaimQualifies(i)

\* C11: with no punts in the input the punt summary has total_punts = 0,
\* opp_territory = 0, exempt = 0, banned = 0 and pct_banned = 0.0 (not NaN),
\* and the run does not raise; with no 60+ yard field-goal attempt the make
\* percentage is 0.0 in the dashboard and N/A in the script.
C11_EmptyPopulation ==
    /\ prog \in {"ufl_rule_analysis", "dashboard"} => pc # "ZeroDivisionError"
    /\ (UflPuntsDone /\ NoPunts) =>
          /\ ufl.total_punts = 0 /\ ufl.n_opp_territory = 0
          /\ ufl.n_exempt_punts = 0 /\ ufl.n_illegal_punts = 0
          /\ ufl.pct_illegal_punts = <<0, 1>>
    /\ NoPunts =>
          \A key \in DOMAIN punts_cache :
             punts_cache[key].summary =
                [total_punts |-> 0, opp_territory |-> 0, exempt |-> 0,
                 banned |-> 0, pct_banned |-> <<0, 1>>]
    /\ (prog = "ufl_rule_analysis" /\ pc = "done" /\ NoLongFgs) =>
          ufl.fg_pct_print = <<"N/A">>
    /\ NoLongFgs =>
          \A key \in DOMAIN fgs_cache : fgs_cache[key].summary.make_pct = <<0, 1>>

C11_Witness ==
    /\ prog = "dashboard" /\ pc = "render"
    /\ Len(pbp) = 1 /\ NoPunts /\ NoLongFgs
    /\ ui.punts.summary.total_punts = 0
    /\ ui.punts.summary.pct_banned = <<0, 1>>
    /\ ui.fgs.summary.make_pct = <<0, 1>>

\* C12: whenever a denominator of an analysis is zero (no banned punts, no
\* go-for-it attempt in a bucket, no punts) the analysis resolves the
\* percentage to a defined default and continues: no run ends in a division
\* fault.
C12_NoDivisionFault == pc # "ZeroDivisionError"

----------------------------------------------------------------------------
(* Properties: the grouped reports of the banned punts *)

RECURSIVE SumColumnSkipNaN(_, _)
SumColumnSkipNaN(tbl, col) ==
    IF tbl = <<>> THEN <<0, 1>>
    ELSE IF tbl[1][col] = NaNRat THEN SumColumnSkipNaN(Tail(tbl), col)
    ELSE RatAdd(tbl[1][col], SumColumnSkipNaN(Tail(tbl), col))

\* |x - 100| <= tenths / 10
Near100(x, tenths) == Abs(x[1] - 100 * x[2]) * 10 <= tenths * x[2]

\* the bracket lines as a table
BracketTable ==
    [k \in 1..3 |->
        LET line == bpa.bracket_lines[<<"short", "medium", "long_">>[k]]
        IN  [count |-> <<line.count, 1>>, pct |-> line.pct]]

\* the bucket table with its counts as floats
BucketTable ==
    [k \in 1..Len(bpa.bucket_table) |->
        [count |-> <<bpa.bucket_table[k].count, 1>>, pct |-> bpa.bucket_table[k].pct]]

BpaAt(pcs) == prog = "banned_punt_analysis" /\ pc \in pcs

\* the counts of a report sum to n, and its reported percentages to 100
\* within tenths / 10
Consistent(tbl, count, pct, n, tenths) ==
    /\ SumColumnSkipNaN(tbl, count) = <<n, 1>>
    /\ Near100(SumColumnSkipNaN(tbl, pct), tenths)

\* C13 as stated: for every non-empty banned-punt population, in each
\* grouped report (situation, bucket, bracket) the counts sum to the number
\* of banned punts and the reported percentages sum to 100 within 0.1.
C13_Original ==
    /\ \A key \in DOMAIN punts_cache :
          punts_cache[key].summary.banned > 0 =>
             Consistent(punts_cache[key].situation_df, "Count", "% of Banned",
                        punts_cache[key].summary.banned, 1)
    /\ (BpaAt({"sectionB", "sectionD", "sectionE", "sectionF", "sectionG", "done"})
        /\ bpa.n_banned > 0) =>
          Consistent(BucketTable, "count", "pct", bpa.n_banned, 1)
    /\ BpaAt({"sectionD", "sectionE", "sectionF", "sectionG", "done"}) =>
          Consistent(BracketTable, "count", "pct", bpa.n_banned, 1)
    /\ BpaAt({"sectionG", "done"}) =>
          Consistent(bpa.situation_stats, "count", "pct", bpa.n_banned, 1)

\* C13 amended: the counts sum to the number of banned punts; the reported
\* percentages sum to 100 within 0.1 for the three brackets and within 0.2
\* for the four situations and the five buckets.
C13_PercentagesWithinRounding ==
    /\ \A key \in DOMAIN punts_cache :
          punts_cache[key].summary.banned > 0 =>
             Consistent(punts_cache[key].situation_df, "Count", "% of Banned",
                        punts_cache[key].summary.banned, 2)
    /\ (BpaAt({"sectionB", "sectionD", "sectionE", "sectionF", "sectionG", "done"})
        /\ bpa.n_banned > 0) =>
          Consistent(BucketTable, "count", "pct", bpa.n_banned, 2)
    /\ BpaAt({"sectionD", "sectionE", "sectionF", "sectionG", "done"}) =>
          Consistent(BracketTable, "count", "pct", bpa.n_banned, 1)
    /\ BpaAt({"sectionG", "done"}) =>
          Consistent(bpa.situation_stats, "count", "pct", bpa.n_banned, 2)

C13_Witness ==
    /\ BpaAt({"done"})
    /\ bpa.n_banned = 14
    /\ SumColumnSkipNaN(BucketTable, "pct") = <<499, 5>>
    /\ SumColumnSkipNaN(BracketTable, "pct") = <<100, 1>>

ClaimSituation(diff) ==
    IF diff > 0 THEN "Leading"
    ELSE IF diff = 0 THEN "Tied"
    ELSE IF diff >= -8 THEN "Trailing (1 score)" ELSE "Trailing (2+ scores)"

Situations == {"Leading", "Tied", "Trailing (1 score)", "Trailing (2+ scores)"}

\* the number of plays of the set S in situation sit
ClaimSituationCount(S, sit) ==
    Cardinality({i \in S : ClaimSituation(pbp[i].score_differential) = sit})

\* the table tbl has a row labelled v in column label whose column count is
\* the number n (a defined value)
Reports(tbl, label, v, count, n) ==
    \E k \in 1..Len(tbl) : tbl[k][label] = v /\ tbl[k][count] = n

\* C14: no category with zero observations is dropped: each of the four
\* situations and each of the five buckets appears in every per-situation
\* and per-bucket report, with a defined zero when no play falls in it
\* (the situation table of the dashboard, the Section A bucket table and the
\* Section F printout of banned_punt_analysis.py).
C14_NoCategoryDropped ==
    /\ \A key \in DOMAIN punts_cache : \A sit \in Situations :
          Reports(punts_cache[key].situation_df, "Situation", sit, "Count",
                  <<ClaimSituationCount(Range(punts_cache[key].banned), sit), 1>>)
    /\ BpaAt({"sectionB", "sectionD", "sectionE", "sectionF", "sectionG", "done"}) =>
          \A b \in Buckets :
             Reports(bpa.bucket_table, "index", b, "count",
                     Cardinality({i \in Range(bpa.banned_punts) :
                                     ClaimLabel(pbp[i].ydstogo) = b}))
    /\ BpaAt({"sectionG", "done"}) =>
          \A sit \in Situations :
             Reports(bpa.situation_lines, "index", sit, "count",
                     <<ClaimSituationCount(Range(bpa.banned_punts), sit), 1>>)

----------------------------------------------------------------------------
(* Properties: the order of the rows of the grouped tables *)

Swap(t, i, j) ==
    [k \in 1..Len(t) |-> IF k = i THEN t[j] ELSE IF k = j THEN t[i] ELSE t[k]]

Reverse(t) == [k \in 1..Len(t) |-> t[Len(t) + 1 - k]]

\* Reorderings of the plays of the table: every exchange of two plays, and
\* the reversal (all permutations of a table of up to three plays).
Reorderings(t) ==
    {Swap(t, i, j) : i, j \in 1..Len(t)} \cup {Reverse(t), Swap(Reverse(t), 1, Len(t))}

Labels(tbl, col) == [k \in 1..Len(tbl) |-> tbl[k][col]]

\* C15: every per-bucket table lists its rows in the order 0-1, 2-3, 4-5,
\* 6-10, 11+ and every per-situation table in the order Leading, Tied,
\* Trailing (1 score), Trailing (2+ scores), and permuting the input plays
\* leaves the row order and the row values of these tables unchanged.
C15_FixedCategoryOrder ==
    /\ \A key \in DOMAIN punts_cache :
          /\ Labels(punts_cache[key].situation_df, "Situation") =
                <<"Leading", "Tied", "Trailing (1 score)", "Trailing (2+ scores)">>
          /\ \A q \in Reorderings(pbp) :
                ComputePuntsBody(q, key[2]).situation_df =
                   punts_cache[key].situation_df
    /\ \A key \in DOMAIN epa_cache :
          /\ epa_cache[key].index = <<"0-1", "2-3", "4-5", "6-10", "11+">>
          /\ \A q \in Reorderings(pbp) :
                /\ ComputeEpaSwingBody(q, key[2]).index = epa_cache[key].index
                /\ ComputeEpaSwingBody(q, key[2]).tbl = epa_cache[key].tbl
    /\ BpaAt({"sectionB", "sectionD", "sectionE", "sectionF", "sectionG", "done"}) =>
          /\ Labels(bpa.bucket_table, "index") = <<"0-1", "2-3", "4-5", "6-10", "11+">>
          /\ \A q \in Reorderings(pbp) :
                BpaBucketTable(q, BpaBannedPunts(q).banned_punts) = bpa.bucket_table
    /\ BpaAt({"sectionF", "sectionG", "done"}) =>
          /\ bpa.results_index = <<"0-1", "2-3", "4-5", "6-10", "11+">>
          /\ \A q \in Reorderings(pbp) :
                LET r == BpaResults(q, BpaBannedPunts(q).banned_punts)
                IN  r.results_index = bpa.results_index /\ r.results = bpa.results
    /\ BpaAt({"sectionG", "done"}) =>
          /\ Labels(bpa.situation_stats, "index") =
                <<"Leading", "Tied", "Trailing (1 score)", "Trailing (2+ scores)">>
          /\ \A q \in Reorderings(pbp) :
                LET stats == BpaSituationStats(q, BpaBannedPunts(q).banned_punts)
                IN  /\ stats = bpa.situation_stats
                    /\ BpaSituationLines(stats) = bpa.situation_lines

\* two banned punts, the first while trailing by 9 on 4th and 11, the second
\* while leading on 4th and 1
C15_Witness ==
    /\ BpaAt({"done"})
    /\ Len(pbp) = 2
    /\ pbp[1].score_differential = -9 /\ pbp[1].ydstogo = 11
    /\ pbp[2].score_differential = 3 /\ pbp[2].ydstogo = 1
    /\ bpa.n_banned = 2
    /\ Labels(bpa.situation_lines, "index") = <<"Leading", "Trailing (2+ scores)">>
    /\ bpa.bucket_table[1].count = 1 /\ bpa.bucket_table[5].count = 1

----------------------------------------------------------------------------
(* Properties: a table that lacks a column *)

\* C16: a run that fails on a column its table lacks fails with the explicit
\* schema error of _check_cols, which names the missing columns, and never
\* with a key lookup failure: every error shown that is about a column is
\* the schema error and names columns the table lacks.
C16_MissingColumnNamed ==
    ("error" \in DOMAIN screen /\ screen.error.columns # {})
        => /\ screen.error.kind = "Schema change detected"
           /\ screen.error.columns \subseteq AllColumns \ columns

\* The sections of the load & compute block in the order of their calls: the
\* name of the result, the label of _check_cols and the required columns.
Sections ==
    <<[name |-> "punts", label |-> "punts", required |-> REQUIRED_PUNT_COLS],
      [name |-> "fgs", label |-> "field goals", required |-> REQUIRED_FG_COLS],
      [name |-> "epa", label |-> "EPA swing", required |-> REQUIRED_EPA_COLS],
      [name |-> "tush_push", label |-> "tush push",
       required |-> REQUIRED_SNEAK_COLS]>>

SchemaErrorShown ==
    /\ prog = "dashboard"
    /\ "error" \in DOMAIN screen
    /\ screen.error.kind = "Schema change detected"

Complete(k) == Sections[k].required \subseteq columns

\* C17: when the table lacks a column of one section only and the schema
\* error of that section is shown, the other sections, whose required columns
\* are all present, are computed and rendered.
C17_OtherSectionsRendered ==
    (SchemaErrorShown /\ Cardinality({k \in 1..Len(Sections) : ~Complete(k)}) = 1)
        => /\ "tabs" \in DOMAIN screen
           /\ \A k \in 1..Len(Sections) :
                 Complete(k) => Sections[k].name \in DOMAIN screen.tabs

----------------------------------------------------------------------------
(* Properties: a provider that fails *)

ComputePcs ==
    {"compute_punts", "compute_fgs", "compute_epa_swing", "compute_tush_push"}

\* the cache and the key of the compute function that the run is about to call
CallCache ==
    CASE pc = "compute_punts" -> punts_cache
      [] pc = "compute_fgs" -> fgs_cache
      [] pc = "compute_epa_swing" -> epa_cache
      [] pc = "compute_tush_push" -> tush_cache

CallKey ==
    IF pc \in {"compute_punts", "compute_epa_swing"}
    THEN <<season, exclude_2min>> ELSE <<season>>

Expired(fname, key) ==
    <<fname, key>> \notin DOMAIN stamps \/ now - stamps[<<fname, key>>] >= TTL

\* The next step of the run calls the provider: neither the result of the
\* compute function nor the table of load_pbp is served from a cache.
ProviderCalled ==
    /\ prog = "dashboard" /\ pc \in ComputePcs
    /\ Expired(pc, CallKey)
    /\ Expired("load_pbp", <<season>>)

FreshTabs ==
    LET t == RegularSeason(feed[season])
    IN  [punts             |-> ComputePuntsBody(t, exclude_2min),
         team_punt_display |-> TeamPuntDisplay(
                                   ComputePuntsBody(t, exclude_2min).team_table,
                                   min_punts),
         fgs               |-> ComputeFgsBody(t),
         epa               |-> ComputeEpaSwingBody(t, exclude_2min),
         epa_display       |-> EpaDisplay(ComputeEpaSwingBody(t, exclude_2min).tbl),
         pct_banned        |-> Round1(ComputePuntsBody(t, exclude_2min)
                                          .summary.pct_banned),
         tush_push         |-> ComputeTushPushBody(t)]

ErrorOnly ==
    (prog = "dashboard" /\ "error" \in DOMAIN screen)
        => pc = "stopped" /\ DOMAIN screen = {"error"}

\* C18: a provider call that fails ends the run with the data error on the
\* screen and no tab rendered, and stores nothing; a run that shows an error
\* shows nothing else; and the tabs a run renders show the results of the
\* provider's table of the season, whatever was loaded before and whichever
\* loads failed before.
C18_FailedLoadShowsOnlyError ==
    /\ [](ErrorOnly /\ ("tabs" \in DOMAIN screen => screen.tabs = FreshTabs))
    /\ [][(ProviderCalled /\ ~up)
            => /\ pc' = "stopped"
               /\ screen' = [error |-> Message("Data error", "", {},
                                               "ProviderError")]
               /\ UNCHANGED <<ui, punts_cache, fgs_cache, epa_cache,
                              tush_cache, pbp_cache, stamps>>]_vars

\* The provider fails in a run that has results of an earlier load at hand:
\* the table of the season is in the cache of load_pbp, expired, compute_punts
\* has returned its cached result, and the run shows the error alone.
C18_Witness ==
    /\ prog = "dashboard" /\ pc = "stopped"
    /\ ~up
    /\ screen = [error |-> Message("Data error", "", {}, "ProviderError")]
    /\ <<season>> \in DOMAIN pbp_cache
    /\ DOMAIN ui = {"punts"}

----------------------------------------------------------------------------
(* Properties: the minimum number of punts of the team table *)

\* the result of compute_punts / compute_epa_swing for the provider's table
\* of a season, computed afresh
FreshPunts(key) == ComputePuntsBody(RegularSeason(feed[key[1]]), key[2])

FreshEpa(key) == ComputeEpaSwingBody(RegularSeason(feed[key[1]]), key[2])

\* C19: the team table shown is exactly the rows of the computed team table
\* with Total Punts >= min_punts, in their order and with their values, and
\* all of them when min_punts = 0; the punt summary, the situation table, the
\* EPA table and the computed team table, as shown and as cached, are those of
\* a computation that does not know min_punts.
C19_MinPuntsFiltersDisplayOnly ==
    /\ (prog = "dashboard" /\ "tabs" \in DOMAIN screen)
          => LET computed == FreshPunts(<<season, exclude_2min>>)
                 shown    == screen.tabs.team_punt_display
             IN  /\ shown = SelectSeq(computed.team_table,
                                      LAMBDA row : row["Total Punts"] >= min_punts)
                 /\ min_punts = 0 => shown = computed.team_table
                 /\ screen.tabs.punts = computed
                 /\ screen.tabs.epa = FreshEpa(<<season, exclude_2min>>)
    /\ \A key \in DOMAIN punts_cache : punts_cache[key] = FreshPunts(key)
    /\ \A key \in DOMAIN epa_cache : epa_cache[key] = FreshEpa(key)

\* With min_punts = 2 the team with one punt is not shown, the team with two
\* punts is, and the computed table has both.
C19_Witness ==
    /\ prog = "dashboard" /\ "tabs" \in DOMAIN screen
    /\ min_punts = 2
    /\ Len(screen.tabs.punts.team_table) = 2
    /\ Len(screen.tabs.team_punt_display) = 1
    /\ screen.tabs.team_punt_display[1]["Total Punts"] = 2

----------------------------------------------------------------------------
(* Properties: the result cache *)

CacheOf(f) ==
    CASE f = "compute_punts" -> punts_cache
      [] f = "compute_fgs" -> fgs_cache
      [] f = "compute_epa_swing" -> epa_cache
      [] f = "compute_tush_push" -> tush_cache

KeyOf(f) ==
    IF f \in {"compute_punts", "compute_epa_swing"}
    THEN <<season, exclude_2min>> ELSE <<season>>

NameOf(f) ==
    CASE f = "compute_punts" -> "punts"
      [] f = "compute_fgs" -> "fgs"
      [] f = "compute_epa_swing" -> "epa"
      [] f = "compute_tush_push" -> "tush_push"

\* the result of function f for a key, computed afresh from the provider's
\* table of the season of the key
FreshOf(f, key) ==
    LET t == RegularSeason(feed[key[1]])
    IN  CASE f = "compute_punts" -> ComputePuntsBody(t, key[2])
          [] f = "compute_fgs" -> ComputeFgsBody(t)
          [] f = "compute_epa_swing" -> ComputeEpaSwingBody(t, key[2])
          [] f = "compute_tush_push" -> ComputeTushPushBody(t)

\* Every entry, expired or not, and every value returned to the run is the
\* fresh computation of its key.
Memoized ==
    \A f \in ComputePcs :
        /\ \A key \in DOMAIN CacheOf(f) : CacheOf(f)[key] = FreshOf(f, key)
        /\ (prog = "dashboard" /\ NameOf(f) \in DOMAIN ui)
              => ui[NameOf(f)] = FreshOf(f, KeyOf(f))

\* A call of function f at key leaves the entries of the other keys and of
\* the other functions as they are, with their times.
OthersUntouched(f, key) ==
    /\ \A k \in DOMAIN CacheOf(f) \ {key} :
          /\ k \in DOMAIN CacheOf(f)'
          /\ CacheOf(f)'[k] = CacheOf(f)[k]
          /\ stamps'[<<f, k>>] = stamps[<<f, k>>]
    /\ DOMAIN CacheOf(f)' \subseteq DOMAIN CacheOf(f) \cup {key}
    /\ \A g \in ComputePcs \ {f} :
          /\ CacheOf(g)' = CacheOf(g)
          /\ \A k \in DOMAIN CacheOf(g) : stamps'[<<g, k>>] = stamps[<<g, k>>]

\* An entry of f is served, untouched, while less than 86400 seconds have
\* passed since it was stored; after that the call computes afresh and
\* stores the value at the time of the call.  The table of load_pbp is
\* served by the same rule.
UniformExpiry(f, key) ==
    /\ (key \in DOMAIN CacheOf(f) /\ now - stamps[<<f, key>>] < 86400)
          => /\ NameOf(f) \in DOMAIN ui' /\ ui'[NameOf(f)] = CacheOf(f)[key]
             /\ UNCHANGED <<punts_cache, fgs_cache, epa_cache, tush_cache,
                            pbp_cache, stamps>>
    /\ (key \in DOMAIN CacheOf(f) /\ now - stamps[<<f, key>>] >= 86400
           /\ pc' # "stopped")
          => /\ stamps'[<<f, key>>] = now
             /\ ui'[NameOf(f)] = FreshOf(f, key)
    /\ (Expired(f, key) /\ <<season>> \in DOMAIN pbp_cache)
          => IF now - stamps[<<"load_pbp", <<season>>>>] < 86400
             THEN /\ pc' # "stopped"
                  /\ pbp_cache' = pbp_cache
                  /\ stamps'[<<"load_pbp", <<season>>>>]
                        = stamps[<<"load_pbp", <<season>>>>]
             ELSE pc' # "stopped" => stamps'[<<"load_pbp", <<season>>>>] = now

\* C20: the result cache is a pure memoization.  While the table of a season
\* is the same, every entry and every value returned for a key (season,
\* exclude_2min) is the fresh computation for that key, whichever keys were
\* computed, hit or expired before; a call touches no entry but that of its
\* own key; and every entry is served for 86400 seconds and no longer.
C20_PureMemoization ==
    /\ []Memoized
    /\ [][\A f \in ComputePcs :
            (prog = "dashboard" /\ pc = f)
                => \A key \in {KeyOf(f)} :
                      OthersUntouched(f, key) /\ UniformExpiry(f, key)]_vars

\* The four keys of compute_punts have been computed, at different times;
\* the entry of one of them has expired, and that of the key of this run has
\* been computed afresh after its own expiry.
C20_Witness ==
    /\ prog = "dashboard" /\ pc = "render"
    /\ Cardinality(DOMAIN punts_cache) = 4
    /\ now >= 86400
    /\ stamps[<<"compute_punts", <<season, exclude_2min>>>>] = now
    /\ \E k \in DOMAIN punts_cache :
          now - stamps[<<"compute_punts", k>>] >= 86400
    /\ \E k \in DOMAIN punts_cache :
          /\ k # <<season, exclude_2min>>
          /\ now - stamps[<<"compute_punts", k>>] < 86400
    /\ \E k1 \in DOMAIN punts_cache, k2 \in DOMAIN punts_cache :
          punts_cache[k1] # punts_cache[k2]

----------------------------------------------------------------------------
(* Properties: the leading-only analysis *)

Leading(i) == pbp[i].score_differential > 0

ClaimLeadGo(b) == {i \in ClaimGo(b) : Leading(i)}

ClaimLeadPunts(b) == {i \in ClaimPunts(TRUE, b) : Leading(i)}

RECURSIVE SetSumPostWp(_)
SetSumPostWp(S) ==
    IF S = {} THEN <<0, 1>>
    ELSE LET i == CHOOSE j \in S : TRUE
         IN  RatAdd(RatAdd(pbp[i].wp, pbp[i].wpa), SetSumPostWp(S \ {i}))

\* the mean of wp + wpa over the plays S
ClaimMeanWp(S) == RatMul(SetSumPostWp(S), Rat(1, Cardinality(S)))

\* C21: in Section G the go-for-it baseline and the banned punts are both
\* restricted by score_differential > 0, and per bucket conv_rate,
\* wp_if_converted, wp_if_failed and avg_post_punt_wp are those of the
\* leading go-for-it plays and of the leading banned punts alone.
C21_LeadingOnly ==
    (prog = "banned_punt_analysis" /\ pc = "done") =>
       /\ Range(bpa.fourth_go_leading)
             = UNION {ClaimLeadGo(b) : b \in Buckets}
       /\ Range(bpa.leading_banned)
             = UNION {ClaimLeadPunts(b) : b \in Buckets}
       /\ \A b \in Buckets :
             LET row  == bpa.g_results[b]
                 go   == ClaimLeadGo(b)
                 conv == go \cap ClaimConv(b)
                 fail == go \cap ClaimFail(b)
                 p    == Rat(Cardinality(conv), Cardinality(go))
             IN  /\ row.conv_rate = p
                 /\ row.wp_if_converted = ClaimMeanWp(conv)
                 /\ row.wp_if_failed = ClaimMeanWp(fail)
                 /\ go # {} =>
                       row.avg_post_punt_wp = ClaimMeanWp(ClaimLeadPunts(b))
                 /\ row.exp_wp_go =
                       RatAdd(RatMul(p, ClaimMeanWp(conv)),
                              RatMul(RatSub(<<1, 1>>, p), ClaimMeanWp(fail)))
                 /\ row.wp_swing = RatSub(row.exp_wp_go, row.avg_post_punt_wp)

\* Leading and trailing teams both went for it and both punted: the leading
\* row has p = 1/2, 0.8 and 0.5 after the play, 0.6 after the punt.
C21_Witness ==
    /\ prog = "banned_punt_analysis" /\ pc = "done"
    /\ pbp = LeadScenario
    /\ Len(bpa.fourth_go) = 4 /\ Len(bpa.fourth_go_leading) = 2
    /\ bpa.n_banned = 2 /\ bpa.n_leading = 1
    /\ bpa.g_results["0-1"].conv_rate = <<1, 2>>
    /\ bpa.g_results["0-1"].wp_if_converted = <<4, 5>>
    /\ bpa.g_results["0-1"].wp_if_failed = <<1, 2>>
    /\ bpa.g_results["0-1"].avg_post_punt_wp = <<3, 5>>
    /\ bpa.g_results["0-1"].wp_swing = <<1, 20>>
    /\ bpa.wp_results["0-1"].wp_if_converted = <<3, 5>>

----------------------------------------------------------------------------
(* Properties: score_situation *)

ClaimSituationLabels ==
    {"Leading", "Tied", "Trailing (1 score)", "Trailing (2+ scores)"}

\* C22: score_situation returns exactly one of the four labels for every
\* integer differential: Leading iff diff > 0, Tied iff diff = 0,
\* Trailing (1 score) iff -8 <= diff <= -1, Trailing (2+ scores) iff
\* diff < -8; and the copies of the script and of the dashboard agree.
C22_ScoreSituation ==
    /\ \A copy \in DOMAIN res :
          prog = "situation" =>
             /\ res[copy] \in ClaimSituationLabels
             /\ res[copy] = "Leading" <=> arg.diff > 0
             /\ res[copy] = "Tied" <=> arg.diff = 0
             /\ res[copy] = "Trailing (1 score)"
                   <=> (0 - 8 <= arg.diff /\ arg.diff <= 0 - 1)
             /\ res[copy] = "Trailing (2+ scores)" <=> arg.diff < 0 - 8
    /\ (prog = "situation" /\ DOMAIN res = {"dashboard", "script"})
          => res.dashboard = res.script

\* Eight points behind is one score in both copies.
C22_Witness ==
    /\ prog = "situation"
    /\ arg.diff = 0 - 8
    /\ DOMAIN res = {"dashboard", "script"}
    /\ res.dashboard = "Trailing (1 score)"
    /\ res.script = "Trailing (1 score)"

----------------------------------------------------------------------------
(* Properties: the loaded table is not written to *)

AddedColumns == {"bucket", "situation", "converted"}

\* The columns a derived copy carries beyond those of the rows it copies
ColumnsAdded(df) == UNION {DOMAIN df[i] \ AllColumns : i \in DOMAIN df}

\* The tables that load_pbp returned for the seasons asked for so far
LoadedTables == {RegularSeason(feed[s]) : s \in DOMAIN feed}

LoadedIntact ==
    prog = "dashboard" =>
        /\ pbp = <<>> \/ pbp \in LoadedTables
        /\ \A i \in DOMAIN pbp : DOMAIN pbp[i] \cap AddedColumns = {}
        /\ \A k \in DOMAIN pbp_cache :
              pbp_cache[k].ok => pbp_cache[k].table = RegularSeason(feed[k[1]])
        /\ ColumnsAdded(ComputePuntsLocals(pbp, exclude_2min).banned) = {}
        /\ LET epa == ComputeEpaSwingLocals(pbp, exclude_2min)
           IN  /\ epa.banned # <<>> => ColumnsAdded(epa.banned) = {"bucket"}
               /\ epa.fourth_go # <<>>
                     => ColumnsAdded(epa.fourth_go) = {"bucket"}
        /\ LET tush == ComputeTushPushLocals(pbp)
           IN  /\ ColumnsAdded(tush.sneaks) = {}
               /\ tush.sneaks_crit # <<>>
                     => ColumnsAdded(tush.sneaks_crit) = {"converted"}
               /\ tush.eagles # <<>>
                     => ColumnsAdded(tush.eagles) = {"bucket", "situation"}

\* C23: no call of compute_punts, compute_fgs, compute_epa_swing or
\* compute_tush_push, with any key and after any other calls, changes the
\* table that load_pbp returned: it keeps its rows, columns and values, and
\* the columns bucket, situation and converted are on derived copies only.
C23_LoadedTableNeverMutated ==
    /\ []LoadedIntact
    /\ [][\A f \in ComputePcs :
            (prog = "dashboard" /\ pc = f)
               => /\ pbp' \in {pbp, Loaded(season)}
                  /\ \A k \in DOMAIN pbp_cache \cap DOMAIN pbp_cache' :
                        pbp_cache'[k] = pbp_cache[k]]_vars

\* All four functions ran on the table with the sneak of PHI, after runs
\* with another season and the other setting of the checkbox.
C23_Witness ==
    /\ prog = "dashboard" /\ pc = "tabs"
    /\ pbp # <<>> /\ pbp = RegularSeason(feed[season])
    /\ Cardinality(DOMAIN punts_cache) >= 3
    /\ DOMAIN tush_cache = {<<2025>>, <<2024>>}
    /\ ComputeTushPushLocals(pbp).eagles # <<>>
    /\ ColumnsAdded(ComputeTushPushLocals(pbp).eagles) = {"bucket", "situation"}
    /\ ColumnsAdded(ComputeTushPushLocals(pbp).eagles_crit) = {"converted"}
    /\ ColumnsAdded(ComputeEpaSwingLocals(pbp, exclude_2min).fourth_go) = {"bucket"}
    /\ \A i \in DOMAIN pbp : DOMAIN pbp[i] \cap AddedColumns = {}

----------------------------------------------------------------------------
(* Properties: rounding *)

\* The values of the EPA analysis are stored as computed from the unrounded
\* rate and means.
StoredUnrounded(row, excl, b) ==
    /\ row.conv_rate = ClaimP(b)
    /\ row.epa_if_converted = ClaimMean(ClaimConv(b))
    /\ row.epa_if_failed = ClaimMean(ClaimFail(b))
    /\ row.exp_epa_go = ClaimExpGo(b)
    /\ row.epa_swing = ClaimSwing(excl, b)

EpaUnrounded ==
    /\ \A key \in DOMAIN epa_cache : \A b \in Buckets :
          StoredUnrounded(epa_cache[key].frame[b], key[2], b)
    /\ BpaAt({"sectionE", "sectionF", "sectionG", "done"}) =>
          \A b \in Buckets :
             /\ StoredUnrounded(bpa.results[b], TRUE, b)
             /\ bpa.results[b].avg_punt_epa = ClaimMean(ClaimPunts(TRUE, b))
             /\ bpa.display[b] = BpaDisplayRow(bpa.results[b])
    /\ (prog = "dashboard" /\ "tabs" \in DOMAIN screen) =>
          /\ screen.tabs.epa = ui.epa
          /\ screen.tabs.epa_display = EpaDisplay(ui.epa.tbl)
          /\ screen.tabs.punts = ui.punts
          /\ screen.tabs.pct_banned = Round1(ui.punts.summary.pct_banned)

\* The percentage of the summary is the unrounded share.
SummaryUnrounded ==
    \A key \in DOMAIN punts_cache :
       LET summary == punts_cache[key].summary
       IN  summary.total_punts > 0 =>
              summary.pct_banned
                  = RatMul(Rat(summary.banned, summary.total_punts), <<100, 1>>)

\* The exact share of banned punts of a row of the team table
TeamShare(row) ==
    RatMul(Rat(row["Banned Punts"], row["Total Punts"]), <<100, 1>>)

\* C24 as stated: rounding to 1 and to 3 decimals is applied at presentation
\* only; every value that feeds a later computation is unrounded, and no
\* compute function stores a rounded value in a table it returns.
C24_Original ==
    /\ EpaUnrounded
    /\ SummaryUnrounded
    /\ \A key \in DOMAIN punts_cache :
          \A k \in DOMAIN punts_cache[key].team_table :
             LET row == punts_cache[key].team_table[k]
             IN  row["% Banned"] = TeamShare(row)

\* C24 amended: every value that a later computation reads is unrounded and
\* the EPA tables are rounded on display copies only; compute_punts stores
\* the team percentages rounded to 1 decimal in the table it returns, each
\* computed from the unrounded counts, and the display filter keeps them.
C24_RoundedValuesNotConsumed ==
    /\ EpaUnrounded
    /\ SummaryUnrounded
    /\ \A key \in DOMAIN punts_cache :
          \A k \in DOMAIN punts_cache[key].team_table :
             LET row == punts_cache[key].team_table[k]
             IN  row["% Banned"] = Round1(TeamShare(row))
    /\ (prog = "dashboard" /\ "tabs" \in DOMAIN screen) =>
          \A k \in DOMAIN screen.tabs.team_punt_display :
             \E j \in DOMAIN ui.punts.team_table :
                screen.tabs.team_punt_display[k] = ui.punts.team_table[j]

\* Two of three attempts converted, so that the rate and the expected value
\* have no finite decimal expansion, and two of three punts banned, stored
\* as 66.7 in the team table.
C24_Witness ==
    /\ prog = "dashboard" /\ pc = "render"
    /\ \E b \in Buckets :
          /\ ui.epa.frame[b].conv_rate = <<2, 3>>
          /\ ~IsNaN(ui.epa.frame[b].exp_epa_go)
          /\ ui.epa.frame[b].exp_epa_go # Round3(ui.epa.frame[b].exp_epa_go)
          /\ screen.tabs.epa_display[b]["Conv Rate"] = <<667, 10>>
    /\ \E key \in DOMAIN punts_cache :
          \E k \in DOMAIN punts_cache[key].team_table :
             /\ punts_cache[key].team_table[k]["Banned Punts"] = 2
             /\ punts_cache[key].team_table[k]["Total Punts"] = 3
             /\ punts_cache[key].team_table[k]["% Banned"] = <<667, 10>>

----------------------------------------------------------------------------
(* Properties: long field goals in games lost by one point *)

ClaimGame(i) == {j \in Rows : pbp[j].game_id = pbp[i].game_id}

\* s is the largest of the values v[j], j in S
ClaimIsMax(s, S, col) ==
    /\ \E j \in S : pbp[j][col] = s
    /\ \A j \in S : pbp[j][col] <= s

\* The running scores of the game never decrease in the order of the table.
ClaimNonDecreasing(S) ==
    \A j, k \in S :
       j < k => /\ pbp[j].total_home_score <= pbp[k].total_home_score
                /\ pbp[j].total_away_score <= pbp[k].total_away_score

ClaimLastPlay(S) == CHOOSE j \in S : \A k \in S : k <= j

ClaimMadeLong ==
    {i \in Rows : /\ pbp[i].play_type = "field_goal"
                  /\ NumGe(pbp[i].kick_distance, 60)
                  /\ pbp[i].field_goal_result = "made"}

\* C25: for every made field goal of 60+ yards the final score of its game
\* is the maximum of total_home_score and of total_away_score over the plays
\* with its game_id; team_margin is the kicking team's final score minus the
\* opponent's (home - away when posteam = home_team, else away - home); the
\* kick is listed as lost by 1 iff team_margin = -1; and when the running
\* scores never decrease the maximum is the score on the game's last play.
C25_LostByOne ==
    (prog = "ufl_rule_analysis" /\ pc = "done") =>
       /\ {ufl.made_with_result[k].play : k \in DOMAIN ufl.made_with_result}
             = ClaimMadeLong
       /\ Len(ufl.made_with_result) = Cardinality(ClaimMadeLong)
       /\ \A k \in DOMAIN ufl.made_with_result :
             LET row  == ufl.made_with_result[k]
                 i    == row.play
                 game == ClaimGame(i)
                 last == ClaimLastPlay(game)
                 own  == IF pbp[i].posteam = pbp[i].home_team
                         THEN row.final_home_score ELSE row.final_away_score
                 opp  == IF pbp[i].posteam = pbp[i].home_team
                         THEN row.final_away_score ELSE row.final_home_score
             IN  /\ ClaimIsMax(row.final_home_score, game, "total_home_score")
                 /\ ClaimIsMax(row.final_away_score, game, "total_away_score")
                 /\ row.team_margin = own - opp
                 /\ (\E l \in DOMAIN ufl.lost_by_1 : ufl.lost_by_1[l] = row)
                       <=> row.team_margin = 0 - 1
                 /\ ClaimNonDecreasing(game) =>
                       /\ row.final_home_score = pbp[last].total_home_score
                       /\ row.final_away_score = pbp[last].total_away_score
       /\ ufl.n_lost_by_1
             = Cardinality({i \in ClaimMadeLong :
                              \E k \in DOMAIN ufl.made_with_result :
                                 /\ ufl.made_with_result[k].play = i
                                 /\ ufl.made_with_result[k].team_margin = 0 - 1})

\* Three long kicks made: PHI lost game 1 by one point at home, and in game
\* 2 the visitor lost by four and the home team won by four.
C25_Witness ==
    /\ prog = "ufl_rule_analysis" /\ pc = "done"
    /\ pbp = ScoreScenario
    /\ Len(ufl.made_with_result) = 3
    /\ ufl.made_with_result[1].team_margin = 0 - 1
    /\ ufl.made_with_result[2].team_margin = 0 - 4
    /\ ufl.made_with_result[3].team_margin = 4
    /\ ufl.n_lost_by_1 = 1
    /\ ufl.lost_by_1[1].play = 1

----------------------------------------------------------------------------
(* Properties: the banned set of the three programs *)

\* The banned punts of team in the frame banned
ClaimOfTeam(banned, team) == {i \in Range(banned) : pbp[i].posteam = team}

----------------------------------------------------------------------------
(* Properties: undefined expected values *)

\* The expected value exp and the swing of a bucket with the converted
\* attempts conv, the failed attempts fail and the banned punts punts: each
\* is a number exactly when the means it is computed from exist, and a rate
\* of 1 or of 0 leaves the expected value undefined.
DefinedOnlyWithBoth(rate, exp, swing, conv, fail, punts) ==
    /\ ~IsNaN(exp) <=> (conv # {} /\ fail # {})
    /\ ~IsNaN(swing) <=> (conv # {} /\ fail # {} /\ punts # {})
    /\ rate = <<1, 1>> => IsNaN(exp) /\ IsNaN(swing)
    /\ rate = <<0, 1>> => IsNaN(exp) /\ IsNaN(swing)

\* C27: in compute_epa_swing and in Sections D, E and G a bucket's expected
\* value of going for it is defined only if the bucket has a converted and a
\* failed attempt, and its swing only if it has a banned punt as well; a
\* bucket with p = 1 or p = 0 has an undefined expected value rather than
\* v_success or v_fail.
C27_UndefinedWithoutBothOutcomes ==
    /\ \A key \in DOMAIN epa_cache : \A b \in Buckets :
          LET row == epa_cache[key].frame[b]
          IN  DefinedOnlyWithBoth(row.conv_rate, row.exp_epa_go, row.epa_swing,
                                  ClaimConv(b), ClaimFail(b),
                                  ClaimPunts(key[2], b))
    /\ (prog = "banned_punt_analysis" /\ pc = "done") =>
          \A b \in Buckets :
             /\ DefinedOnlyWithBoth(bpa.results[b].conv_rate,
                                    bpa.results[b].exp_epa_go,
                                    bpa.results[b].epa_swing,
                                    ClaimConv(b), ClaimFail(b),
                                    ClaimPunts(TRUE, b))
             /\ DefinedOnlyWithBoth(bpa.wp_results[b].conv_rate,
                                    bpa.wp_results[b].exp_wp_go,
                                    bpa.wp_results[b].wp_swing,
                                    ClaimConv(b), ClaimFail(b),
                                    ClaimPunts(TRUE, b))
             /\ DefinedOnlyWithBoth(bpa.g_results[b].conv_rate,
                                    bpa.g_results[b].exp_wp_go,
                                    bpa.g_results[b].wp_swing,
                                    ClaimLeadGo(b) \cap ClaimConv(b),
                                    ClaimLeadGo(b) \cap ClaimFail(b),
                                    ClaimLeadPunts(b))

\* The leading team converted its only attempt of the bucket and punted
\* once: the rate is 1, the means after a conversion and after the punt
\* exist, and the expected values and the swings are undefined.
C27_Witness ==
    /\ prog = "banned_punt_analysis" /\ pc = "done"
    /\ \E b \in Buckets :
          /\ bpa.results[b].conv_rate = <<1, 1>>
          /\ ~IsNaN(bpa.results[b].epa_if_converted)
          /\ ~IsNaN(bpa.results[b].avg_punt_epa)
          /\ IsNaN(bpa.results[b].exp_epa_go)
          /\ IsNaN(bpa.results[b].epa_swing)
          /\ bpa.g_results[b].conv_rate = <<1, 1>>
          /\ ~IsNaN(bpa.g_results[b].wp_if_converted)
          /\ ~IsNaN(bpa.g_results[b].avg_post_punt_wp)
          /\ IsNaN(bpa.g_results[b].exp_wp_go)
          /\ IsNaN(bpa.wp_results[b].wp_swing)

----------------------------------------------------------------------------
(* Properties: the team table *)

\* The teams with a punt
ClaimPuntTeams == {pbp[i].posteam : i \in PuntIdx}

ClaimTeamRows(tbl, team) == {k \in DOMAIN tbl : tbl[k]["Team"] = team}

\* C28: in the team table of compute_punts every team with a punt has
\* exactly one row, a team with no banned punt has Banned Punts = 0, every
\* row has 0 <= Banned Punts <= Total Punts, and Banned Punts sums to the
\* summary's banned and Total Punts to the summary's total_punts.
C28_TeamTable ==
    \A key \in DOMAIN punts_cache :
       LET punts == punts_cache[key]
           tbl   == punts.team_table
       IN  /\ \A team \in ClaimPuntTeams :
                 Cardinality(ClaimTeamRows(tbl, team)) = 1
           /\ \A k \in DOMAIN tbl :
                 /\ tbl[k]["Team"] \in ClaimPuntTeams
                 /\ 0 <= tbl[k]["Banned Punts"]
                 /\ tbl[k]["Banned Punts"] <= tbl[k]["Total Punts"]
                 /\ (\A i \in Range(punts.banned) :
                        pbp[i].posteam # tbl[k]["Team"])
                       => tbl[k]["Banned Punts"] = 0
           /\ SumColumn(tbl, "Banned Punts") = punts.summary.banned
           /\ SumColumn(tbl, "Total Punts") = punts.summary.total_punts

\* DAL punted twice and neither punt is banned; PHI has one banned punt.
C28_Witness ==
    /\ KeyOn \in DOMAIN punts_cache
    /\ Len(punts_cache[KeyOn].team_table) = 2
    /\ punts_cache[KeyOn].team_table[1]["Team"] = "PHI"
    /\ punts_cache[KeyOn].team_table[1]["Total Punts"] = 1
    /\ punts_cache[KeyOn].team_table[1]["Banned Punts"] = 1
    /\ punts_cache[KeyOn].team_table[2]["Team"] = "DAL"
    /\ punts_cache[KeyOn].team_table[2]["Total Punts"] = 2
    /\ punts_cache[KeyOn].team_table[2]["Banned Punts"] = 0
    /\ punts_cache[KeyOn].summary.banned = 1
    /\ punts_cache[KeyOn].summary.total_punts = 3

----------------------------------------------------------------------------
(* Properties: quarterback sneaks *)

ClaimFlagged == {i \in Rows : pbp[i].qb_sneak = 1}

\* The passes with a passer of the team and the game of play i
ClaimPasses(i) ==
    {j \in Rows : /\ pbp[j].pass_attempt = 1
                  /\ pbp[j].game_id = pbp[i].game_id
                  /\ pbp[j].posteam = pbp[i].posteam
                  /\ pbp[j].passer_player_id # NaN}

ClaimThrows(i, id) ==
    Cardinality({j \in ClaimPasses(i) : pbp[j].passer_player_id = id})

\* No passer of the team in the game of play i threw more often than id
ClaimMostFrequent(i, id) ==
    /\ ClaimThrows(i, id) > 0
    /\ \A j \in ClaimPasses(i) :
          ClaimThrows(i, pbp[j].passer_player_id) <= ClaimThrows(i, id)

\* ... and every other passer threw less often
ClaimOnlyMostFrequent(i, id) ==
    /\ ClaimThrows(i, id) > 0
    /\ \A j \in ClaimPasses(i) :
          pbp[j].passer_player_id # id
             => ClaimThrows(i, pbp[j].passer_player_id) < ClaimThrows(i, id)

ClaimShortRushes ==
    {i \in Rows : /\ pbp[i].rush_attempt = 1
                  /\ pbp[i].ydstogo = 1
                  /\ pbp[i].rusher_player_id # NaN}

ClaimConverted(i) ==
    \/ pbp[i].down = <<3>> /\ pbp[i].third_down_converted = 1
    \/ pbp[i].down = <<4>> /\ pbp[i].fourth_down_converted = 1

\* converted / attempts over the plays S, 0 when S is empty
ClaimRate(S) ==
    IF S = {} THEN <<0, 1>>
    ELSE Rat(Cardinality({i \in S : ClaimConverted(i)}), Cardinality(S))

\* C29: in compute_tush_push a sneak on third or fourth down is converted
\* iff (down = 3 and third_down_converted = 1) or (down = 4 and
\* fourth_down_converted = 1); the conversion rates are over the sneaks on
\* downs 3 and 4 only and are 0.0 when there is none; the sneaks are the rows
\* with qb_sneak = 1 when the column exists and holds a 1, and else the
\* rushes with ydstogo = 1 whose rusher is the most frequent passer of the
\* team in the game; and wins_crit <= n_crit_games.
C29_TushPush ==
    (prog = "dashboard" /\ <<season>> \in DOMAIN tush_cache) =>
       LET tush   == tush_cache[<<season>>]
           locals == ComputeTushPushLocals(pbp)
           sneaks == DOMAIN locals.sneaks
           crit   == {i \in sneaks : pbp[i].down \in {<<3>>, <<4>>}}
           eagles == {i \in crit : pbp[i].posteam = "PHI"}
       IN  /\ IF "qb_sneak" \in columns /\ ClaimFlagged # {}
              THEN sneaks = ClaimFlagged
              ELSE /\ \A i \in sneaks :
                         /\ i \in ClaimShortRushes
                         /\ ClaimMostFrequent(i, pbp[i].rusher_player_id)
                   /\ \A i \in ClaimShortRushes :
                         ClaimOnlyMostFrequent(i, pbp[i].rusher_player_id)
                            => i \in sneaks
           /\ tush.n_total = Cardinality(sneaks)
           /\ DOMAIN locals.sneaks_crit = crit
           /\ \A i \in crit :
                 locals.sneaks_crit[i].converted <=> ClaimConverted(i)
           /\ tush.league_conv = ClaimRate(crit)
           /\ tush.eagles_conv = ClaimRate(eagles)
           /\ tush.n_crit_games
                 = Cardinality({pbp[i].game_id :
                                   i \in {j \in eagles : ClaimConverted(j)}})
           /\ tush.wins_crit <= tush.n_crit_games

\* Three flagged sneaks of PHI: two converted on third and fourth down in
\* two games, of which PHI won one, and one on second down that counts in
\* no rate.
C29_Witness ==
    /\ prog = "dashboard" /\ pc = "tabs"
    /\ pbp = GamesScenario
    /\ ui.tush_push.n_total = 3
    /\ ui.tush_push.league_conv = <<1, 1>>
    /\ ui.tush_push.n_crit_games = 2
    /\ ui.tush_push.wins_crit = 1
    /\ ui.tush_push.by_down = (<<2>> :> 1) @@ (<<3>> :> 1) @@ (<<4>> :> 1)

====
